---- MODULE Spec2Model ----
(***************************************************************************)
(* Model of the synthesis core (cpal-synth/src/synth).                      *)
(*                                                                         *)
(* The automation parameter (audio_param.rs): a scalar `current_value`     *)
(* with an insertion-ordered list of ramp events, sampled at an absolute   *)
(* sample index by get_value.                                              *)
(*                                                                         *)
(* The graph (audio_graph.rs, audio_node.rs, processor.rs, oscillator.rs): *)
(* a registry of boxed nodes, an output node, the playing flag, the clock  *)
(* and the stream whose callback runs write_data.  A boxed node is either  *)
(* a node owned by its box or an Arc<Mutex<..>> handle to a node the       *)
(* caller made; the nodes behind the handles are kept in `arcs`.           *)
(*                                                                         *)
(* The wavetable bank registry (bandlimited_wavetableoscillator.rs): a     *)
(* process-wide map behind one mutex, used by concurrent threads.          *)
(*                                                                         *)
(* Numbers.  f32 values are modelled exactly, on a grid whose unit is the   *)
(* exponential floor 0.00001 (so Epsilon is 1, and 0 is a value below it).  *)
(* Interpolated values are exact rationals <<n, d>> in lowest terms; the    *)
(* value of an exponential ramp strictly inside its span is kept as the     *)
(* term <<s, e, k, d>> standing for s * (e / s)^(k / d).  Sample indices    *)
(* and durations are naturals far below 2^64, so no u64 sum wraps.  NaN and *)
(* the infinities are not on the grid.  A sample a node produces is kept as *)
(* the term of its factors, not multiplied out.                            *)
(***************************************************************************)
EXTENDS Integers, Sequences, FiniteSets, TLC

VARIABLES
    current_value,   \* AudioParam.current_value
    default_value,   \* AudioParam.default_value
    min_value,       \* AudioParam.min_value
    max_value,       \* AudioParam.max_value
    events,          \* AudioParam.events, in insertion order
    lastOp,          \* history: the last call made on the parameter, with its arguments
                     \* (cancel and reset: with the number of events they dropped)
    cancelled,       \* history: cancel_scheduled_values was called and no schedule call since
    nodes,           \* AudioGraph.nodes: name -> boxed node
    output_node,     \* AudioGraph.output_node
    playing,         \* AudioGraph.playing
    stream,          \* AudioGraph.stream: the open stream with the output node its callback owns
    context,         \* AudioGraph.context: the clock
    arcs,            \* the nodes behind the Arc<Mutex<..>> handles the caller has made
    control,         \* the control thread's position inside start and stop
    callback,        \* the audio thread's position inside write_data
    buffer,          \* the buffer of the last callback, as write_data left it
    graphOp,         \* history: the last graph operation, with its arguments
    banks,           \* WAVETABLE_BANKS: key -> bank
    banksLock,       \* the thread holding the mutex of WAVETABLE_BANKS, or 0
    threads,         \* the threads constructing oscillators or initialising the banks
    built,           \* history: how many times a bank was constructed for each key
    wt,              \* the BandlimitedWavetableOscillator a caller has made
    blep,            \* the Oscillator (PolyBLEP) a caller has made
    oscOp,           \* history: the last call on an oscillator, with what it returned
    eventsLock,      \* AudioParam.events: the state of its RwLock
    audio,           \* the audio thread's position inside get_value
    writer           \* the control thread's position inside a call on the parameter

paramVars == <<current_value, default_value, min_value, max_value, events, lastOp, cancelled>>
graphVars == <<nodes, output_node, playing, stream, context, arcs, control, callback, buffer, graphOp>>
bankVars == <<banks, banksLock, threads, built>>
oscVars == <<wt, blep, oscOp>>
lockVars == <<eventsLock, audio, writer>>
vars == <<paramVars, graphVars, bankVars, oscVars, lockVars>>

(***************************************************************************)
(* Bounds of the exploration.                                              *)
(***************************************************************************)
\* schedule calls are explored while the event list is shorter than this
MaxEvents == 2
\* anchor samples passed to the schedule calls: 0..MaxAnchor
MaxAnchor == 1
\* duration_seconds * sample_rate, counted in half samples: -1..MaxHalves
MaxHalves == 4
\* get_value is examined at the samples 0..MaxSample
MaxSample == 4
\* the products explored for a ramp that is the parameter's only event:
\* -1..MaxRampHalves half samples
MaxRampHalves == 8

\* the caller makes at most this many Arc<Mutex<..>> handles
MaxHandles == 1
\* owned processors are nested inside a box at most this deep
MaxDepth == 1
\* a node's gain holds at most this many ramp events
MaxNodeEvents == 1
\* a callback's buffer has 0..MaxFrames frames
MaxFrames == 2
\* of 1..MaxChannels channels
MaxChannels == 2
\* callbacks are explored until the clock reaches this sample
MaxClock == 2
\* at most this many threads use the bank registry
MaxThreads == 2
\* an oscillator's process is called at most this many times
MaxProcess == 3

Anchors == 0..MaxAnchor
Products == (-1)..MaxHalves
RampProducts == (-1)..MaxRampHalves
Samples == 0..MaxSample

\* audio_param.rs:129-130, the floor of an exponential ramp's endpoints (0.00001)
Epsilon == 1

\* RampType
RampType == {"Linear", "Exponential"}

\* The (default, min, max) triples a parameter is constructed with.
Configs == { [default |-> 1, min |-> 0, max |-> 1] }

\* The wider ranges explored with a single ramp.
RampConfigs ==
    { [default |-> 2, min |-> 0, max |-> 3],
      [default |-> 2, min |-> 1, max |-> 4] }

\* the values passed to set_value and to the schedule calls: from one below
\* min_value to one above max_value
NearValues == (min_value - 1)..(max_value + 1)

(***************************************************************************)
(* Arithmetic helpers.                                                     *)
(***************************************************************************)
Max(a, b) == IF a >= b THEN a ELSE b
Min(a, b) == IF a <= b THEN a ELSE b
Abs(a) == IF a < 0 THEN -a ELSE a

RECURSIVE GCD(_, _)
GCD(a, b) == IF b = 0 THEN a ELSE GCD(b, a % b)

\* the rational n / d (d > 0) in lowest terms
Rat(n, d) ==
    LET g == GCD(Abs(n), d)
    IN  <<n \div g, d \div g>>

\* the least common multiple of two positive numbers
LCM(a, b) == (a \div GCD(a, b)) * b

\* a + b, a - b, a * b and a / b of rationals in lowest terms (b > 0 in a / b)
RatAdd(a, b) == Rat(a[1] * (LCM(a[2], b[2]) \div a[2]) + b[1] * (LCM(a[2], b[2]) \div b[2]), LCM(a[2], b[2]))
RatSub(a, b) == RatAdd(a, <<-b[1], b[2]>>)
RatMul(a, b) == <<Rat(a[1], b[2])[1] * Rat(b[1], a[2])[1], Rat(a[1], b[2])[2] * Rat(b[1], a[2])[2]>>
RatDiv(a, b) == RatMul(a, <<b[2], b[1]>>)

\* a < b and a <= b of rationals
RatLess(a, b) == a[1] * (LCM(a[2], b[2]) \div a[2]) < b[1] * (LCM(a[2], b[2]) \div b[2])
RatLeq(a, b) == ~RatLess(b, a)

\* floor(x) of a rational
Floor(x) == IF x[1] >= 0 THEN x[1] \div x[2] ELSE -((-x[1] + x[2] - 1) \div x[2])

\* f32::clamp(value, min, max)
Clamp(value, lo, hi) == Max(lo, Min(value, hi))

\* clamp_value with the lower bound forgotten
clamp_value_upper_only(value) == Min(value, max_value)

\* AudioParam::clamp_value
clamp_value(value) == Clamp(value, min_value, max_value)

\* `x as u64` for the f32 product x = h / 2: truncation toward zero,
\* saturating at 0 for negative x
AsU64(h) == IF h < 0 THEN 0 ELSE h \div 2

\* ((duration_seconds * sample_rate) as u64).max(1)
DurationSamples(h) == Max(AsU64(h), 1)

(***************************************************************************)
(* get_value: the evaluator.                                               *)
(***************************************************************************)
\* the sample one past the end of the ramp
EndSample(event) == event.start_sample + event.duration_samples

\* InProgress without the test that the ramp has started
InProgressUnstarted(event, s) == s < EndSample(event)

\* current_sample >= start_sample && current_sample < start_sample + duration_samples
InProgress(event, s) == s >= event.start_sample /\ s < EndSample(event)

\* current_sample >= start_sample + duration_samples
Completed(event, s) == s >= EndSample(event)

\* the exponential ramp taken as a straight line from start to end
PowTermLinear(start, end, k, d) == Rat(start * d + (end - start) * k, d)

\* start * (end / start).powf(k / d) for start, end >= Epsilon
PowTerm(start, end, k, d) ==
    IF k = 0 \/ start = end
    THEN Rat(start, 1)
    ELSE LET g == GCD(k, d) IN <<start, end, k \div g, d \div g>>

\* RampValue with t taken from the absolute sample index: t = s / duration_samples
RampValueAbsolute(event, s) ==
    LET k == s
        d == event.duration_samples
    IN  IF event.ramp_type = "Linear"
        THEN LET delta == event.end_value - event.start_value
             IN  Rat(event.start_value * d + delta * k, d)
        ELSE LET start == Max(event.start_value, Epsilon)
                 end == Max(event.end_value, Epsilon)
             IN  PowTerm(start, end, k, d)

\* the match on ramp_type inside the loop, with t = (s - start_sample) / duration_samples
RampValue(event, s) ==
    LET k == s - event.start_sample
        d == event.duration_samples
    IN  IF event.ramp_type = "Linear"
        THEN LET delta == event.end_value - event.start_value
             IN  Rat(event.start_value * d + delta * k, d)
        ELSE LET start == Max(event.start_value, Epsilon)
                 end == Max(event.end_value, Epsilon)
             IN  PowTerm(start, end, k, d)

\* the loop `for event in events.iter()` from index i on, `value` being the
\* loop's running result
RECURSIVE EventLoop(_, _, _, _)
EventLoop(evs, i, value, s) ==
    IF i > Len(evs)
    THEN value
    ELSE IF InProgress(evs[i], s)
         THEN RampValue(evs[i], s)                              \* break
         ELSE IF Completed(evs[i], s)
              THEN EventLoop(evs, i + 1, Rat(evs[i].end_value, 1), s)
              ELSE EventLoop(evs, i + 1, value, s)

\* AudioParam::get_value on a parameter holding (cur, evs)
get_value(cur, evs, s) == EventLoop(evs, 1, Rat(cur, 1), s)

\* get_value of the parameter at sample s
ValueAt(s) == get_value(current_value, events, s)

(***************************************************************************)
(* The nodes: AudioProcessor, Oscillator and the Arc<Mutex<..>> handle.    *)
(***************************************************************************)
\* the names the caller gives to nodes
Names == {"a", "b"}

\* the input names of a processor, in the order process visits the inputs
\* (one of the orders the HashMap may iterate in)
InputOrder == <<"a", "b">>
\* the input names passed to connect
InputNames == {"a"}

\* the sample rate the default output device reports
SampleRates == {44100}

\* a HashMap: a function with a finite domain
EmptyMap == [k \in {} |-> k]
Insert(map, key, value) == [k \in DOMAIN map \cup {key} |-> IF k = key THEN value ELSE map[k]]
Remove(map, key) == [k \in DOMAIN map \ {key} |-> map[k]]

\* AudioParam::new(1.0, 0.0, 1.0), the gain of every node, in units of 1.0
GainDefault == 1
GainMin == 0
GainMax == 1
NewGain == [current_value |-> GainDefault, events |-> <<>>]

\* the phase of an oscillator advances by freq / sample_rate a sample and wraps
\* at 1.0: the frequency is left at a fixed PhaseSteps-th of the sample rate
PhaseSteps == 3

\* Oscillator::new and BandlimitedWavetableOscillator::new
NewOscillator == [type |-> "osc", gain |-> NewGain, phase |-> 0]

\* AudioProcessor::new
NewProcessor == [type |-> "proc", gain |-> NewGain, inputs |-> EmptyMap]

\* Box<dyn AudioNode + Send> holding a node it owns
PlainBox(node) == [kind |-> "plain", node |-> node]

\* Box<dyn AudioNode + Send> holding an Arc<Mutex<T>>: a reference to arcs[h]
HandleBox(h) == [kind |-> "handle", ref |-> h]

\* clone_box that copies the node behind a handle into a box of its own
clone_box_snapshot(box, hp) ==
    IF box.kind = "handle" THEN PlainBox(hp[box.ref]) ELSE box

\* clone_box: a node owned by its box is copied with its parameters, its state
\* and (through Clone for Box<dyn AudioNode>) its inputs; a handle is cloned as
\* an Arc, a second reference to the same node
clone_box(box, hp) == box

\* how deep owned processors are nested inside a box
RECURSIVE DepthNode(_), DepthBox(_)
DepthNode(node) ==
    IF node.type = "osc"
    THEN 0
    ELSE LET depths == { DepthBox(node.inputs[k]) : k \in DOMAIN node.inputs }
         IN  1 + (IF depths = {} THEN 0 ELSE CHOOSE d \in depths : \A e \in depths : e <= d)
DepthBox(box) == IF box.kind = "handle" THEN 0 ELSE DepthNode(box.node)

\* self.gain.get_value(current_sample)
GainAt(node, s) == get_value(node.gain.current_value, node.gain.events, s)

\* connect_input that keeps the input a name already has
NodeConnectInputKeeping(node, name, child) ==
    IF node.type = "proc" /\ name \notin DOMAIN node.inputs
    THEN [node EXCEPT !.inputs = Insert(node.inputs, name, child)]
    ELSE node

\* connect_input of a node: AudioProcessor inserts or replaces, oscillators
\* have no inputs
NodeConnectInput(node, name, child) ==
    IF node.type = "proc"
    THEN [node EXCEPT !.inputs = Insert(node.inputs, name, child)]
    ELSE node

\* clear_input that removes nothing
NodeClearInputIgnored(node, name) == node

\* clear_input of a node
NodeClearInput(node, name) ==
    IF node.type = "proc"
    THEN [node EXCEPT !.inputs = Remove(node.inputs, name)]
    ELSE node

\* set_parameter(name, value) of a node, for name = "gain"
NodeSetParameter(node, value) ==
    [node EXCEPT !.gain.current_value = Clamp(value, GainMin, GainMax)]

\* a method of a boxed node that changes the node: on an owned node it is
\* applied in place, on a handle to the node behind the lock.  The result
\* is the box and the nodes behind the handles.
ConnectInput(box, hp, name, child) ==
    IF box.kind = "handle"
    THEN [box |-> box, arcs |-> [hp EXCEPT ![box.ref] = NodeConnectInput(@, name, child)]]
    ELSE [box |-> PlainBox(NodeConnectInput(box.node, name, child)), arcs |-> hp]

ClearInput(box, hp, name) ==
    IF box.kind = "handle"
    THEN [box |-> box, arcs |-> [hp EXCEPT ![box.ref] = NodeClearInput(@, name)]]
    ELSE [box |-> PlainBox(NodeClearInput(box.node, name)), arcs |-> hp]

\* process(context, current_sample) of a boxed node, with `held` the handles
\* whose mutex the thread holds.  An oscillator yields its wave at the phase
\* times its gain and advances the phase; an AudioProcessor processes every
\* input, sums them and applies its gain; a handle locks its mutex for the call.
\* Locking a mutex the thread already holds does not return: returned = FALSE,
\* with the state as the call left it.
RECURSIVE ProcessBox(_, _, _, _), ProcessNode(_, _, _, _), ProcessInputs(_, _, _, _, _, _)
ProcessInputs(inputs, i, hp, held, s, outs) ==
    IF i > Len(InputOrder)
    THEN [returned |-> TRUE, out |-> outs, inputs |-> inputs, arcs |-> hp]
    ELSE IF InputOrder[i] \notin DOMAIN inputs
         THEN ProcessInputs(inputs, i + 1, hp, held, s, outs)
         ELSE LET r == ProcessBox(inputs[InputOrder[i]], hp, held, s)
                  after == [inputs EXCEPT ![InputOrder[i]] = r.box]
              IN  IF r.returned
                  THEN ProcessInputs(after, i + 1, r.arcs, held, s, Append(outs, r.out))
                  ELSE [returned |-> FALSE, out |-> outs, inputs |-> after, arcs |-> r.arcs]

ProcessNode(node, hp, held, s) ==
    IF node.type = "osc"
    THEN [ returned |-> TRUE,
           out      |-> <<"osc", node.phase, GainAt(node, s)>>,
           node     |-> [node EXCEPT !.phase = (@ + 1) % PhaseSteps],
           arcs     |-> hp ]
    ELSE LET r == ProcessInputs(node.inputs, 1, hp, held, s, <<>>)
         IN  [ returned |-> r.returned,
               out      |-> <<"proc", r.out, GainAt(node, s)>>,
               node     |-> [node EXCEPT !.inputs = r.inputs],
               arcs     |-> r.arcs ]

ProcessBox(box, hp, held, s) ==
    IF box.kind = "handle"
    THEN IF box.ref \in held
         THEN [returned |-> FALSE, out |-> <<>>, box |-> box, arcs |-> hp]
         ELSE LET r == ProcessNode(hp[box.ref], hp, held \cup {box.ref}, s)
              IN  [ returned |-> r.returned,
                    out      |-> r.out,
                    box      |-> box,
                    arcs     |-> [r.arcs EXCEPT ![box.ref] = r.node] ]
    ELSE LET r == ProcessNode(box.node, hp, held, s)
         IN  [ returned |-> r.returned,
               out      |-> r.out,
               box      |-> PlainBox(r.node),
               arcs     |-> r.arcs ]

(***************************************************************************)
(* The graph: AudioGraph and the audio callback.                           *)
(***************************************************************************)
\* AudioContext::new(sample_rate)
AudioContextNew(sample_rate) == [sample_rate |-> sample_rate, current_sample |-> 0]

\* T::EQUILIBRIUM, and the content of a sample the callback has not written
Equilibrium == <<"equilibrium">>
Stale == <<"stale">>

\* no stream, and the audio thread outside write_data
NoStream == [open |-> FALSE]
CallbackIdle == [state |-> "idle"]

\* AudioGraph::new on a device of the given sample rate
AudioGraphNew(sample_rate) ==
    /\ nodes = EmptyMap
    /\ output_node = PlainBox(NewProcessor)
    /\ playing = FALSE
    /\ stream = NoStream
    /\ context = AudioContextNew(sample_rate)
    /\ arcs = <<>>
    /\ control = "idle"
    /\ callback = CallbackIdle
    /\ buffer = <<>>
    /\ graphOp = [op |-> "new"]

\* the wavetable bank registry before its first use
BanksNew ==
    /\ banks = EmptyMap
    /\ banksLock = 0
    /\ threads = <<>>
    /\ built = EmptyMap

\* no oscillator has been made
NoOscillator == [made |-> FALSE]

OscNew ==
    /\ wt = NoOscillator
    /\ blep = NoOscillator
    /\ oscOp = [op |-> "none"]

\* RwLock::new(Vec::new()): no reader, no writer; both threads outside every call
LockNew ==
    /\ eventsLock = [writer |-> FALSE, readers |-> 0]
    /\ audio = [pc |-> "idle"]
    /\ writer = [pc |-> "idle"]

(***************************************************************************)
(* The operations of the parameter.                                                        *)
(***************************************************************************)
\* AudioParam::new(c.default, c.min, c.max)
New(c) ==
    /\ default_value = c.default
    /\ min_value = c.min
    /\ max_value = c.max
    /\ current_value = c.default
    /\ events = <<>>
    /\ lastOp = [op |-> "new"]
    /\ cancelled = FALSE

Init ==
    /\ \E c \in Configs : New(c)
    /\ \E r \in SampleRates : AudioGraphNew(r)
    /\ BanksNew
    /\ OscNew
    /\ LockNew

\* NewEvent storing the target as it was passed, without clamp_value
NewEventUnclamped(kind, value, halves, start_sample) ==
    [ start_value      |-> current_value,
      end_value        |-> value,
      start_sample     |-> start_sample,
      duration_samples |-> DurationSamples(halves),
      ramp_type        |-> kind ]

\* NewEvent starting from the target of the newest event instead of the
\* current value
NewEventChained(kind, value, halves, start_sample) ==
    [ start_value      |-> IF events = <<>> THEN current_value
                           ELSE events[Len(events)].end_value,
      end_value        |-> clamp_value(value),
      start_sample     |-> start_sample,
      duration_samples |-> DurationSamples(halves),
      ramp_type        |-> kind ]

\* the RampEvent both schedule calls build
NewEvent(kind, value, halves, start_sample) ==
    [ start_value      |-> current_value,
      end_value        |-> clamp_value(value),
      start_sample     |-> start_sample,
      duration_samples |-> DurationSamples(halves),
      ramp_type        |-> kind ]

\* set_value that also drops the pending events
set_value_clearing(value) ==
    /\ current_value' = clamp_value(value)
    /\ events' = <<>>
    /\ lastOp' = [op |-> "set_value", value |-> value]
    /\ UNCHANGED <<default_value, min_value, max_value, cancelled>>

set_value(value) ==
    /\ current_value' = clamp_value(value)
    /\ lastOp' = [op |-> "set_value", value |-> value]
    /\ UNCHANGED <<default_value, min_value, max_value, events, cancelled>>

linear_ramp_to_value_at_time(value, halves, start_sample) ==
    /\ Len(events) < MaxEvents
    /\ events' = Append(events, NewEvent("Linear", value, halves, start_sample))
    /\ lastOp' = [op |-> "linear", value |-> value, halves |-> halves,
                  anchor |-> start_sample]
    /\ cancelled' = FALSE
    /\ UNCHANGED <<current_value, default_value, min_value, max_value>>

exponential_ramp_to_value_at_time(value, halves, start_sample) ==
    /\ Len(events) < MaxEvents
    /\ events' = Append(events, NewEvent("Exponential", value, halves, start_sample))
    /\ lastOp' = [op |-> "exponential", value |-> value, halves |-> halves,
                  anchor |-> start_sample]
    /\ cancelled' = FALSE
    /\ UNCHANGED <<current_value, default_value, min_value, max_value>>

\* cancel_scheduled_values that pops the newest event instead of clearing the list
cancel_newest_only ==
    /\ events' = IF events = <<>> THEN <<>> ELSE SubSeq(events, 1, Len(events) - 1)
    /\ lastOp' = [op |-> "cancel", dropped |-> Len(events)]
    /\ cancelled' = TRUE
    /\ UNCHANGED <<current_value, default_value, min_value, max_value>>

cancel_scheduled_values ==
    /\ events' = <<>>
    /\ lastOp' = [op |-> "cancel", dropped |-> Len(events)]
    /\ cancelled' = TRUE
    /\ UNCHANGED <<current_value, default_value, min_value, max_value>>

\* reset that restores the value and forgets to clear the events
reset_value_only ==
    /\ current_value' = default_value
    /\ lastOp' = [op |-> "reset", dropped |-> Len(events)]
    /\ UNCHANGED <<default_value, min_value, max_value, events, cancelled>>

reset ==
    /\ current_value' = default_value
    /\ events' = <<>>
    /\ lastOp' = [op |-> "reset", dropped |-> Len(events)]
    /\ UNCHANGED <<default_value, min_value, max_value, cancelled>>

Next ==
    \/ \E v \in NearValues : set_value(v) /\ UNCHANGED <<graphVars, bankVars, oscVars, lockVars>>
    \/ \E v \in NearValues, h \in Products, a \in Anchors :
          linear_ramp_to_value_at_time(v, h, a) /\ UNCHANGED <<graphVars, bankVars, oscVars, lockVars>>
    \/ \E v \in NearValues, h \in Products, a \in Anchors :
          exponential_ramp_to_value_at_time(v, h, a) /\ UNCHANGED <<graphVars, bankVars, oscVars, lockVars>>
    \/ cancel_scheduled_values /\ UNCHANGED <<graphVars, bankVars, oscVars, lockVars>>
    \/ reset /\ UNCHANGED <<graphVars, bankVars, oscVars, lockVars>>

Spec == Init /\ [][Next]_vars

(***************************************************************************)
(* The same operations on a parameter of a wider range, with schedule      *)
(* calls made only while the event list is empty: one ramp at a time, of   *)
(* up to MaxRampHalves / 2 samples.                                        *)
(***************************************************************************)
InitRamp ==
    /\ \E c \in RampConfigs : New(c)
    /\ \E r \in SampleRates : AudioGraphNew(r)
    /\ BanksNew
    /\ OscNew
    /\ LockNew

NextRamp ==
    \/ \E v \in NearValues : set_value(v) /\ UNCHANGED <<graphVars, bankVars, oscVars, lockVars>>
    \/ \E v \in NearValues, h \in RampProducts, a \in Anchors :
          /\ events = <<>>
          /\ linear_ramp_to_value_at_time(v, h, a)
          /\ UNCHANGED <<graphVars, bankVars, oscVars, lockVars>>
    \/ \E v \in NearValues, h \in RampProducts, a \in Anchors :
          /\ events = <<>>
          /\ exponential_ramp_to_value_at_time(v, h, a)
          /\ UNCHANGED <<graphVars, bankVars, oscVars, lockVars>>
    \/ cancel_scheduled_values /\ UNCHANGED <<graphVars, bankVars, oscVars, lockVars>>
    \/ reset /\ UNCHANGED <<graphVars, bankVars, oscVars, lockVars>>

SpecRamp == InitRamp /\ [][NextRamp]_vars

(***************************************************************************)
(* The operations of the graph.  Every operation is made by the control    *)
(* thread outside start and stop (control = "idle").                       *)
(***************************************************************************)
\* the nodes the caller builds and hands to add_node in a box of their own
FreshNodes == {NewOscillator, NewProcessor}

\* the handles the caller has made
Handles == 1..Len(arcs)

\* the values passed to set_parameter and to the ramp of a node's gain: one
\* below and one above the range
GainTargets == {GainMin - 1, GainMax + 1}

\* the channel counts of the stream's buffers: mono and the widest
ChannelCounts == {1, MaxChannels}

\* the one name of the graph the stream is explored on
FillName == "a"

\* the boxes of the graph stay within the explored depth
WithinDepth(map, hp) ==
    /\ \A n \in DOMAIN map : DepthBox(map[n]) <= MaxDepth
    /\ \A h \in 1..Len(hp) : DepthNode(hp[h]) <= MaxDepth

\* add_node(name, Box::new(node))
add_node(name, node) ==
    /\ control = "idle"
    /\ nodes' = Insert(nodes, name, PlainBox(node))
    /\ graphOp' = [op |-> "add", name |-> name]
    /\ UNCHANGED <<output_node, playing, stream, context, arcs, control, callback, buffer>>

\* let h = Arc::new(Mutex::new(node)); add_node(name, Box::new(h.clone()))
add_handle(name, node) ==
    /\ control = "idle"
    /\ Len(arcs) < MaxHandles
    /\ arcs' = Append(arcs, node)
    /\ nodes' = Insert(nodes, name, HandleBox(Len(arcs) + 1))
    /\ graphOp' = [op |-> "add", name |-> name]
    /\ UNCHANGED <<output_node, playing, stream, context, control, callback, buffer>>

\* connect that makes a processor for a destination the registry does not hold
connect_creating(from, to, input_name) ==
    /\ control = "idle"
    /\ IF from \in DOMAIN nodes
       THEN LET target == IF to \in DOMAIN nodes THEN nodes[to] ELSE PlainBox(NewProcessor)
                r == ConnectInput(target, arcs, input_name, clone_box(nodes[from], arcs))
            IN  /\ nodes' = Insert(nodes, to, r.box)
                /\ arcs' = r.arcs
                /\ WithinDepth(nodes', arcs')
       ELSE UNCHANGED <<nodes, arcs>>
    /\ graphOp' = [op |-> "connect", from |-> from, to |-> to, input |-> input_name]
    /\ UNCHANGED <<output_node, playing, stream, context, control, callback, buffer>>

\* connect(from, to, input_name)
connect(from, to, input_name) ==
    /\ control = "idle"
    /\ IF from \in DOMAIN nodes /\ to \in DOMAIN nodes
       THEN LET r == ConnectInput(nodes[to], arcs, input_name, clone_box(nodes[from], arcs))
            IN  /\ nodes' = [nodes EXCEPT ![to] = r.box]
                /\ arcs' = r.arcs
                /\ WithinDepth(nodes', arcs')
       ELSE UNCHANGED <<nodes, arcs>>
    /\ graphOp' = [op |-> "connect", from |-> from, to |-> to, input |-> input_name]
    /\ UNCHANGED <<output_node, playing, stream, context, control, callback, buffer>>

\* disconnect that clears the input of the stored output node as well
disconnect_through(from, to) ==
    /\ control = "idle"
    /\ IF to \in DOMAIN nodes
       THEN LET r == ClearInput(nodes[to], arcs, from)
            IN  /\ nodes' = [nodes EXCEPT ![to] = r.box]
                /\ arcs' = r.arcs
                /\ output_node' = ClearInput(output_node, r.arcs, from).box
       ELSE UNCHANGED <<nodes, arcs, output_node>>
    /\ graphOp' = [op |-> "disconnect", from |-> from, to |-> to]
    /\ UNCHANGED <<playing, stream, context, control, callback, buffer>>

\* disconnect(from, to)
disconnect(from, to) ==
    /\ control = "idle"
    /\ IF to \in DOMAIN nodes
       THEN LET r == ClearInput(nodes[to], arcs, from)
            IN  /\ nodes' = [nodes EXCEPT ![to] = r.box]
                /\ arcs' = r.arcs
       ELSE UNCHANGED <<nodes, arcs>>
    /\ graphOp' = [op |-> "disconnect", from |-> from, to |-> to]
    /\ UNCHANGED <<output_node, playing, stream, context, control, callback, buffer>>

\* set_output(node_name)
set_output(node_name) ==
    /\ control = "idle"
    /\ IF node_name \in DOMAIN nodes
       THEN output_node' = clone_box(nodes[node_name], arcs)
       ELSE UNCHANGED output_node
    /\ graphOp' = [op |-> "set_output", name |-> node_name]
    /\ UNCHANGED <<nodes, playing, stream, context, arcs, control, callback, buffer>>

\* h.set_parameter("gain", value) through a handle the caller kept
set_parameter(h, value) ==
    /\ control = "idle"
    /\ arcs' = [arcs EXCEPT ![h] = NodeSetParameter(@, value)]
    /\ graphOp' = [op |-> "set_parameter", handle |-> h, value |-> value]
    /\ UNCHANGED <<nodes, output_node, playing, stream, context, control, callback, buffer>>

\* the first part of start: the clock is replaced by a new one at the device's
\* sample rate, and a stream is built whose callback owns a clone of the
\* output node and shares the playing flag and the new clock
start_stream(sample_rate) ==
    /\ control = "idle"
    /\ callback.state = "idle"
    /\ context' = AudioContextNew(sample_rate)
    /\ stream' = [open |-> TRUE, output_node |-> clone_box(output_node, arcs)]
    /\ control' = "start"
    /\ graphOp' = [op |-> "start", sample_rate |-> sample_rate]
    /\ UNCHANGED <<nodes, output_node, playing, arcs, callback, buffer>>

\* the end of start: self.playing.store(true)
start_playing ==
    /\ control = "start"
    /\ playing' = TRUE
    /\ control' = "idle"
    /\ graphOp' = [op |-> "started"]
    /\ UNCHANGED <<nodes, output_node, stream, context, arcs, callback, buffer>>

\* the first part of stop: self.playing.store(false)
stop_playing ==
    /\ control = "idle"
    /\ playing' = FALSE
    /\ control' = "stop"
    /\ graphOp' = [op |-> "stop"]
    /\ UNCHANGED <<nodes, output_node, stream, context, arcs, callback, buffer>>

\* the end of stop: self.stream = None
stop_stream ==
    /\ control = "stop"
    /\ callback.state = "idle"
    /\ stream' = NoStream
    /\ control' = "idle"
    /\ graphOp' = [op |-> "stopped"]
    /\ UNCHANGED <<nodes, output_node, playing, context, arcs, callback, buffer>>

\* h.gain().linear_ramp_to_value_at_time(value, duration, start_sample) through
\* a handle the caller kept
NodeRamp(node, value, halves, start_sample) ==
    [node EXCEPT !.gain.events =
        Append(@, [ start_value      |-> node.gain.current_value,
                    end_value        |-> Clamp(value, GainMin, GainMax),
                    start_sample     |-> start_sample,
                    duration_samples |-> DurationSamples(halves),
                    ramp_type        |-> "Linear" ])]

ramp_gain(h, value, halves, start_sample) ==
    /\ control = "idle"
    /\ Len(arcs[h].gain.events) < MaxNodeEvents
    /\ arcs' = [arcs EXCEPT ![h] = NodeRamp(@, value, halves, start_sample)]
    /\ graphOp' = [op |-> "ramp_gain", handle |-> h, value |-> value]
    /\ UNCHANGED <<nodes, output_node, playing, stream, context, control, callback, buffer>>

(***************************************************************************)
(* write_data, the body of the stream's callback.                          *)
(***************************************************************************)
\* let num_frames = output.len() / channels
NumFrames(len, channels) == len \div channels

\* the number of chunks output.chunks_mut(channels) yields
NumChunks(len, channels) == (len + channels - 1) \div channels

\* the buffer as the driver hands it over
StaleBuffer(len) == [k \in 1..len |-> Stale]

\* the silent branch leaving the buffer as it came
FillStale(len) == [k \in 1..len |-> Stale]

\* for sample in output.iter_mut() { *sample = T::EQUILIBRIUM }
FillEquilibrium(len) == [k \in 1..len |-> Equilibrium]

\* the sample index counted from the start of the buffer
FrameSampleRelative(base_sample, frame_index) == frame_index

\* let current_sample = base_sample + frame_index as u64
FrameSample(base_sample, frame_index) == base_sample + frame_index

\* the frame written to its first channel only
WriteFrameFirstChannel(buf, frame_index, channels, value) ==
    [k \in DOMAIN buf |-> IF k = frame_index * channels + 1 THEN value ELSE buf[k]]

\* for sample in frame.iter_mut() { *sample = sample_value }
WriteFrame(buf, frame_index, channels, value) ==
    [k \in DOMAIN buf |-> IF (k - 1) \div channels = frame_index THEN value ELSE buf[k]]

\* context.increment_samples(num_frames): the clock advanced by the frames of
\* the buffer
increment_samples(ctx, num_frames) ==
    [ctx EXCEPT !.current_sample = @ + num_frames]

\* the structure of inputs the output node is rendered from: the owned nodes,
\* and the nodes behind the handles as they are at this moment
RECURSIVE Topology(_, _, _), TopologyNode(_, _, _)
TopologyNode(node, hp, seen) ==
    IF node.type = "osc"
    THEN <<"osc">>
    ELSE <<"proc", [k \in DOMAIN node.inputs |-> Topology(node.inputs[k], hp, seen)]>>
Topology(box, hp, seen) ==
    IF box.kind = "handle"
    THEN IF box.ref \in seen
         THEN <<"handle", box.ref>>
         ELSE <<"handle", box.ref, TopologyNode(hp[box.ref], hp, seen \cup {box.ref})>>
    ELSE TopologyNode(box.node, hp, seen)

\* the rest of one pass of the loop, given the result r of
\* output_node.process(context, current_sample): the value is written to the
\* frame
Rendered(r, buf, current_sample, frame_index, channels) ==
    [ returned |-> r.returned,
      box      |-> r.box,
      arcs     |-> r.arcs,
      sample   |-> current_sample,
      value    |-> r.out,
      buffer   |-> IF r.returned
                   THEN WriteFrame(buf, frame_index, channels, r.out)
                   ELSE buf ]

\* one pass of the loop over the frames: the output node is processed at the
\* frame's sample and the value written to the frame
RenderFrame(box, hp, buf, base_sample, frame_index, channels) ==
    Rendered(ProcessBox(box, hp, {}, FrameSample(base_sample, frame_index)),
             buf, FrameSample(base_sample, frame_index), frame_index, channels)

\* the state of the callback after the pass r of the loop; `acc` is the state
\* before it: the output node, the nodes behind the handles, the buffer, and
\* the samples and values of the frames rendered so far
Advance(acc, r) ==
    [ returned |-> r.returned,
      box      |-> r.box,
      arcs     |-> r.arcs,
      buffer   |-> r.buffer,
      samples  |-> Append(acc.samples, r.sample),
      values   |-> IF r.returned THEN Append(acc.values, r.value) ELSE acc.values ]

\* the loop over the frames from frame_index on; a pass that does not return
\* ends it
RECURSIVE FrameLoop(_, _, _, _), NextFrame(_, _, _, _)
NextFrame(next, base_sample, frame_index, channels) ==
    IF next.returned
    THEN FrameLoop(next, base_sample, frame_index + 1, channels)
    ELSE next
FrameLoop(acc, base_sample, frame_index, channels) ==
    IF frame_index >= NumChunks(Len(acc.buffer), channels)
    THEN acc
    ELSE NextFrame(Advance(acc, RenderFrame(acc.box, acc.arcs, acc.buffer, base_sample,
                                            frame_index, channels)),
                   base_sample, frame_index, channels)

\* the playing branch of write_data on a buffer of len samples, from the
\* callback's output node `box`, up to the advance of the clock
Render(box, hp, len, base_sample, channels) ==
    FrameLoop([ returned |-> TRUE, box |-> box, arcs |-> hp, buffer |-> StaleBuffer(len),
                samples |-> <<>>, values |-> <<>> ],
              base_sample, 0, channels)

\* the silent branch of write_data
SilentBranch(frames, channels, base_sample) ==
    /\ buffer' = FillEquilibrium(frames * channels)
    /\ graphOp' = [ op |-> "fill", playing |-> FALSE, frames |-> frames,
                    channels |-> channels, base |-> base_sample,
                    samples |-> <<>>, values |-> <<>>, returned |-> TRUE ]
    /\ UNCHANGED <<stream, context, arcs, callback>>

\* the playing branch of write_data, given the result r of the loop over the
\* frames: the clock is advanced when the loop has returned
PlayingBranch(r, frames, channels, base_sample) ==
    /\ buffer' = r.buffer
    /\ stream' = [stream EXCEPT !.output_node = r.box]
    /\ arcs' = r.arcs
    /\ context' = IF r.returned
                  THEN increment_samples(context, NumFrames(frames * channels, channels))
                  ELSE context
    /\ callback' = IF r.returned THEN CallbackIdle ELSE [state |-> "blocked"]
    /\ graphOp' = [ op |-> "fill", playing |-> TRUE, frames |-> frames,
                    channels |-> channels, base |-> base_sample,
                    samples |-> r.samples, values |-> r.values,
                    returned |-> r.returned ]

\* one call of the callback on a buffer of frames * channels samples, as one
\* step.  A call that locks a mutex it holds does not return: the audio
\* thread stays blocked.
write_data(frames, channels) ==
    /\ stream.open
    /\ callback.state = "idle"
    /\ context.current_sample + frames <= MaxClock
    /\ IF ~ playing
       THEN SilentBranch(frames, channels, context.current_sample)
       ELSE PlayingBranch(Render(stream.output_node, arcs, frames * channels,
                                 context.current_sample, channels),
                          frames, channels, context.current_sample)
    /\ UNCHANGED <<nodes, output_node, playing, control>>

(***************************************************************************)
(* The registry and the wiring: the operations on the topology, with the   *)
(* stream closed.                                                          *)
(***************************************************************************)
InitGraph ==
    /\ \E c \in Configs : New(c)
    /\ \E r \in SampleRates : AudioGraphNew(r)
    /\ BanksNew
    /\ OscNew
    /\ LockNew

NextGraph ==
    \/ \E n \in Names, node \in FreshNodes :
          add_node(n, node) /\ UNCHANGED <<paramVars, bankVars, oscVars, lockVars>>
    \/ \E n \in Names, node \in FreshNodes :
          add_handle(n, node) /\ UNCHANGED <<paramVars, bankVars, oscVars, lockVars>>
    \/ \E from \in Names, to \in Names, i \in InputNames :
          connect(from, to, i) /\ UNCHANGED <<paramVars, bankVars, oscVars, lockVars>>
    \/ \E from \in Names, to \in Names :
          disconnect(from, to) /\ UNCHANGED <<paramVars, bankVars, oscVars, lockVars>>
    \/ \E n \in Names : set_output(n) /\ UNCHANGED <<paramVars, bankVars, oscVars, lockVars>>
    \/ \E h \in Handles, v \in GainTargets :
          set_parameter(h, v) /\ UNCHANGED <<paramVars, bankVars, oscVars, lockVars>>

SpecGraph == InitGraph /\ [][NextGraph]_vars

(***************************************************************************)
(* The stream: start, stop and the callback, on a graph of one name whose  *)
(* node is owned by its box or is the one handle the caller makes; a       *)
(* handle can be given one ramp of its gain and be connected to itself.    *)
(* A callback runs from entry to return between two operations.            *)
(***************************************************************************)
NextFill ==
    \/ \E node \in FreshNodes :
          add_node(FillName, node) /\ UNCHANGED <<paramVars, bankVars, oscVars, lockVars>>
    \/ \E node \in FreshNodes :
          /\ arcs = <<>>
          /\ add_handle(FillName, node)
          /\ UNCHANGED <<paramVars, bankVars, oscVars, lockVars>>
    \/ \E i \in InputNames :
          /\ FillName \in DOMAIN nodes
          /\ nodes[FillName].kind = "handle"
          /\ connect(FillName, FillName, i)
          /\ UNCHANGED <<paramVars, bankVars, oscVars, lockVars>>
    \/ set_output(FillName) /\ UNCHANGED <<paramVars, bankVars, oscVars, lockVars>>
    \/ \E h \in Handles, v \in GainTargets, a \in Anchors :
          /\ arcs[h].gain.events = <<>>
          /\ ramp_gain(h, v, MaxHalves, a)
          /\ UNCHANGED <<paramVars, bankVars, oscVars, lockVars>>
    \/ \E r \in SampleRates : start_stream(r) /\ UNCHANGED <<paramVars, bankVars, oscVars, lockVars>>
    \/ start_playing /\ UNCHANGED <<paramVars, bankVars, oscVars, lockVars>>
    \/ stop_playing /\ UNCHANGED <<paramVars, bankVars, oscVars, lockVars>>
    \/ stop_stream /\ UNCHANGED <<paramVars, bankVars, oscVars, lockVars>>
    \/ \E f \in 0..MaxFrames, c \in ChannelCounts :
          write_data(f, c) /\ UNCHANGED <<paramVars, bankVars, oscVars, lockVars>>

SpecFill == InitGraph /\ [][NextFill]_vars

(***************************************************************************)
(* The callback frame by frame: the control thread runs between two passes *)
(* of the loop over the frames.  The output is the one handle the caller   *)
(* makes; the control thread wires a second node of the registry into it   *)
(* and out of it.                                                          *)
(***************************************************************************)
\* the name of the node wired into the output
SourceName == "b"

\* the callback is entered: the playing flag is read once; when it is false
\* the buffer is filled with silence and the callback returns, otherwise the
\* base sample is read from the clock and the loop over the frames begins
enter_callback(frames, channels) ==
    /\ stream.open
    /\ callback.state = "idle"
    /\ context.current_sample + frames <= MaxClock
    /\ IF ~ playing
       THEN /\ buffer' = FillEquilibrium(frames * channels)
            /\ UNCHANGED callback
       ELSE /\ buffer' = StaleBuffer(frames * channels)
            /\ callback' = [ state |-> "running", channels |-> channels,
                             base |-> context.current_sample, frame_index |-> 0,
                             views |-> <<>> ]
    /\ graphOp' = [op |-> "enter", playing |-> playing]
    /\ UNCHANGED <<nodes, output_node, playing, stream, context, arcs, control>>

\* the effect of the pass r of the loop on the stream's node, the nodes behind
\* the handles and the buffer
FrameRendered(r) ==
    /\ buffer' = r.buffer
    /\ stream' = [stream EXCEPT !.output_node = r.box]
    /\ arcs' = r.arcs
    /\ callback' = IF r.returned
                   THEN [callback EXCEPT
                            !.frame_index = @ + 1,
                            !.views = Append(@, Topology(stream.output_node, arcs, {}))]
                   ELSE [state |-> "blocked"]

\* one pass of the loop over the frames; `views` keeps the structure of inputs
\* each frame was rendered from
render_frame ==
    /\ callback.state = "running"
    /\ callback.frame_index < NumChunks(Len(buffer), callback.channels)
    /\ FrameRendered(RenderFrame(stream.output_node, arcs, buffer, callback.base,
                                 callback.frame_index, callback.channels))
    /\ graphOp' = [op |-> "frame"]
    /\ UNCHANGED <<nodes, output_node, playing, context, control>>

\* the loop is over: the clock is advanced and the callback returns
exit_callback ==
    /\ callback.state = "running"
    /\ callback.frame_index >= NumChunks(Len(buffer), callback.channels)
    /\ context' = increment_samples(context, NumFrames(Len(buffer), callback.channels))
    /\ callback' = CallbackIdle
    /\ graphOp' = [op |-> "return"]
    /\ UNCHANGED <<nodes, output_node, playing, stream, arcs, control, buffer>>

NextStream ==
    \/ \E node \in FreshNodes :
          /\ arcs = <<>>
          /\ add_handle(FillName, node)
          /\ UNCHANGED <<paramVars, bankVars, oscVars, lockVars>>
    \/ \E node \in FreshNodes :
          add_node(SourceName, node) /\ UNCHANGED <<paramVars, bankVars, oscVars, lockVars>>
    \/ \E i \in InputNames :
          connect(SourceName, FillName, i) /\ UNCHANGED <<paramVars, bankVars, oscVars, lockVars>>
    \/ \E i \in InputNames :
          disconnect(i, FillName) /\ UNCHANGED <<paramVars, bankVars, oscVars, lockVars>>
    \/ set_output(FillName) /\ UNCHANGED <<paramVars, bankVars, oscVars, lockVars>>
    \/ \E r \in SampleRates : start_stream(r) /\ UNCHANGED <<paramVars, bankVars, oscVars, lockVars>>
    \/ start_playing /\ UNCHANGED <<paramVars, bankVars, oscVars, lockVars>>
    \/ \E f \in 0..MaxFrames, c \in ChannelCounts :
          enter_callback(f, c) /\ UNCHANGED <<paramVars, bankVars, oscVars, lockVars>>
    \/ render_frame /\ UNCHANGED <<paramVars, bankVars, oscVars, lockVars>>
    \/ exit_callback /\ UNCHANGED <<paramVars, bankVars, oscVars, lockVars>>

SpecStream == InitGraph /\ [][NextStream]_vars

\* The same with the output's node also added as a node its box owns, so that
\* set_output and start take snapshots of it.
NextSnapshot ==
    \/ \E node \in FreshNodes :
          add_node(FillName, node) /\ UNCHANGED <<paramVars, bankVars, oscVars, lockVars>>
    \/ NextStream

SpecSnapshot == InitGraph /\ [][NextSnapshot]_vars

(***************************************************************************)
(* The registry of wavetable banks: WAVETABLE_BANKS, a map behind one      *)
(* mutex, used by threads that construct wavetable oscillators and by      *)
(* threads that initialise the banks.  A sample rate is kept in half Hz,   *)
(* so that two rates with the same integer part are told apart.            *)
(***************************************************************************)
\* let oscillator_types = [Sine, Square, Sawtooth, Triangle]
oscillator_types == <<"Sine", "Square", "Sawtooth", "Triangle">>

\* the waveforms the threads construct oscillators of
NewWaveforms == {"Sine", "Triangle"}

\* the sample rates of the contexts, in half Hz: 44100.0, 44100.5 and 48000.0
BankRates == {88200, 88201, 96000}

\* let sample_rate_key = sample_rate as u32
sample_rate_key(sample_rate) == sample_rate \div 2

\* the banks constructed so far
Constructed == LET keys == DOMAIN built
                   RECURSIVE Sum(_)
                   Sum(ks) == IF ks = {} THEN 0
                              ELSE LET k == CHOOSE x \in ks : TRUE
                                   IN  built[k] + Sum(ks \ {k})
               IN  Sum(keys)

\* Arc::new(WaveTableBank::new(waveform, sample_rate)): a bank of its own
NewBank(waveform, sample_rate) ==
    [id |-> Constructed + 1, waveform |-> waveform, sample_rate |-> sample_rate]

NoBank == [id |-> 0]

Threads == 1..Len(threads)

\* the key a thread is working on
KeyOf(t) ==
    IF threads[t].call = "new"
    THEN <<threads[t].waveform, sample_rate_key(threads[t].sample_rate)>>
    ELSE <<oscillator_types[threads[t].i], sample_rate_key(threads[t].sample_rate)>>

\* a mutex that lets every thread in
CanLockAlways == TRUE

\* WAVETABLE_BANKS.lock() returns when no thread holds the mutex
CanLock == banksLock = 0

\* a thread calls BandlimitedWavetableOscillator::new(waveform, context)
call_new(waveform, sample_rate) ==
    /\ Len(threads) < MaxThreads
    /\ threads' = Append(threads, [ call |-> "new", waveform |-> waveform,
                                    sample_rate |-> sample_rate, i |-> 0,
                                    pc |-> "lock", bank |-> NoBank ])
    /\ UNCHANGED <<banks, banksLock, built>>

\* a thread calls initialize_wave_banks(context)
call_init(sample_rate) ==
    /\ Len(threads) < MaxThreads
    /\ threads' = Append(threads, [ call |-> "init", waveform |-> "",
                                    sample_rate |-> sample_rate, i |-> 1,
                                    pc |-> "lock", bank |-> NoBank ])
    /\ UNCHANGED <<banks, banksLock, built>>

\* let mut banks = WAVETABLE_BANKS.lock()
lock(t) ==
    /\ threads[t].pc = "lock"
    /\ CanLock
    /\ banksLock' = t
    /\ threads' = [threads EXCEPT ![t].pc = "lookup"]
    /\ UNCHANGED <<banks, built>>

\* are_wave_banks_initialized(sample_rate)
are_wave_banks_initialized(sample_rate) ==
    \A i \in DOMAIN oscillator_types :
        <<oscillator_types[i], sample_rate_key(sample_rate)>> \in DOMAIN banks

\* a lookup that never finds the key
lookup_always_missing(t) ==
    /\ threads[t].pc = "lookup"
    /\ threads' = [threads EXCEPT ![t].pc = "construct"]
    /\ UNCHANGED <<banks, banksLock, built>>

\* banks.get(&key) in new; banks.contains_key(&key) in the loop of
\* initialize_wave_banks, which goes on to the next type when the key is there
lookup(t) ==
    /\ threads[t].pc = "lookup"
    /\ IF KeyOf(t) \in DOMAIN banks
       THEN IF threads[t].call = "new"
            THEN threads' = [threads EXCEPT ![t].bank = banks[KeyOf(t)], ![t].pc = "unlock"]
            ELSE IF threads[t].i < Len(oscillator_types)
                 THEN threads' = [threads EXCEPT ![t].i = @ + 1]
                 ELSE threads' = [threads EXCEPT ![t].pc = "unlock"]
       ELSE threads' = [threads EXCEPT ![t].pc = "construct"]
    /\ UNCHANGED <<banks, banksLock, built>>

\* let bank = Arc::new(WaveTableBank::new(osc_type, sample_rate))
construct(t) ==
    /\ threads[t].pc = "construct"
    /\ threads' = [threads EXCEPT ![t].bank = NewBank(KeyOf(t)[1], threads[t].sample_rate),
                                  ![t].pc = "insert"]
    /\ built' = Insert(built, KeyOf(t),
                       IF KeyOf(t) \in DOMAIN built THEN built[KeyOf(t)] + 1 ELSE 1)
    /\ UNCHANGED <<banks, banksLock>>

\* banks.insert(key, bank)
insert(t) ==
    /\ threads[t].pc = "insert"
    /\ banks' = Insert(banks, KeyOf(t), threads[t].bank)
    /\ IF threads[t].call = "new"
       THEN threads' = [threads EXCEPT ![t].pc = "unlock"]
       ELSE IF threads[t].i < Len(oscillator_types)
            THEN threads' = [threads EXCEPT ![t].i = @ + 1, ![t].bank = NoBank,
                                            ![t].pc = "lookup"]
            ELSE threads' = [threads EXCEPT ![t].bank = NoBank, ![t].pc = "unlock"]
    /\ UNCHANGED <<banksLock, built>>

\* the guard goes out of scope: the mutex is released and the call returns
unlock(t) ==
    /\ threads[t].pc = "unlock"
    /\ banksLock' = IF banksLock = t THEN 0 ELSE banksLock
    /\ threads' = [threads EXCEPT ![t].pc = "done"]
    /\ UNCHANGED <<banks, built>>

InitBanks ==
    /\ \E c \in Configs : New(c)
    /\ \E r \in SampleRates : AudioGraphNew(r)
    /\ BanksNew
    /\ OscNew
    /\ LockNew

NextBanks ==
    \/ \E w \in NewWaveforms, r \in BankRates :
          call_new(w, r) /\ UNCHANGED <<paramVars, graphVars, oscVars, lockVars>>
    \/ \E r \in BankRates : call_init(r) /\ UNCHANGED <<paramVars, graphVars, oscVars, lockVars>>
    \/ \E t \in Threads : lock(t) /\ UNCHANGED <<paramVars, graphVars, oscVars, lockVars>>
    \/ \E t \in Threads : lookup(t) /\ UNCHANGED <<paramVars, graphVars, oscVars, lockVars>>
    \/ \E t \in Threads : construct(t) /\ UNCHANGED <<paramVars, graphVars, oscVars, lockVars>>
    \/ \E t \in Threads : insert(t) /\ UNCHANGED <<paramVars, graphVars, oscVars, lockVars>>
    \/ \E t \in Threads : unlock(t) /\ UNCHANGED <<paramVars, graphVars, oscVars, lockVars>>

SpecBanks == InitBanks /\ [][NextBanks]_vars

(***************************************************************************)
(* The wavetable bank and the BandlimitedWavetableOscillator.              *)
(* Frequencies and sample rates are exact rationals in Hz; a parameter     *)
(* holding a frequency is on the grid of its minimum, 0.01 Hz.  The        *)
(* samples stored in a table are not modelled: an access is the index it   *)
(* reads.                                                                  *)
(***************************************************************************)
OVERSAMPLE == 2
BASE_FREQ == 20
MIN_TABLE_SIZE == 64

\* grid units of a frequency parameter per Hz
HzUnits == 100
\* AudioParam::new(440.0, 0.01, 22050.0) of both oscillators
FreqDefault == 44000
FreqMin == 1
FreqMax == 2205000

\* the sample rates of the contexts the oscillators are made for
ClockRates == {8000, 44100}

\* InterpolationType
InterpolationType == {"Linear", "Cubic", "Simd"}

\* (sample_rate / (3.0 * BASE_FREQ)) as usize
max_harmonics(sample_rate) == sample_rate \div (3 * BASE_FREQ)

\* the next power of two: while table_len < target { table_len *= 2 }
RECURSIVE GrowTable(_, _)
GrowTable(table_len, target) ==
    IF table_len < target THEN GrowTable(table_len * 2, target) ELSE table_len

table_len(sample_rate) == GrowTable(MIN_TABLE_SIZE, max_harmonics(sample_rate) * 2 * OVERSAMPLE)

\* the highest partial create_wavetable writes into the spectrum, and how
\* many it writes: 1..=num_harmonics, every second one of them, or the first
HighestPartial(waveform, num_harmonics) ==
    IF waveform = "Sine" THEN 1
    ELSE IF waveform = "Sawtooth" THEN num_harmonics
    ELSE num_harmonics - ((num_harmonics + 1) % 2)

StoredPartials(waveform, num_harmonics) ==
    IF waveform = "Sine" THEN 1
    ELSE IF waveform = "Sawtooth" THEN num_harmonics
    ELSE (num_harmonics + 1) \div 2

\* create_wavetable without the push of the padding sample
create_wavetable_unpadded(len, num_harmonics, waveform, top_freq) ==
    [harmonics |-> StoredPartials(waveform, num_harmonics),
     highest |-> HighestPartial(waveform, num_harmonics),
     top_freq |-> top_freq,
     samples |-> len, pad |-> 0, table_mask |-> len - 1, table_size |-> len]

\* create_wavetable: len + 1 samples, the last one pushed as a copy of the
\* sample at index `pad`
create_wavetable(len, num_harmonics, waveform, top_freq) ==
    [harmonics |-> StoredPartials(waveform, num_harmonics),
     highest |-> HighestPartial(waveform, num_harmonics),
     top_freq |-> top_freq,
     samples |-> len + 1, pad |-> 0, table_mask |-> len - 1, table_size |-> len]

\* the loop of WaveTableBank::new: one table and one bound per halving, then
\* the bank
RECURSIVE BuildTables(_, _, _, _, _, _, _)
BuildTables(waveform, len, harmonics, top_freq, sample_rate, tables, frequency_bounds) ==
    IF harmonics >= 1
    THEN BuildTables(waveform, len, harmonics \div 2, RatMul(top_freq, <<2, 1>>), sample_rate,
                     Append(tables, create_wavetable(len, harmonics, waveform, top_freq)),
                     Append(frequency_bounds, RatMul(top_freq, <<sample_rate, 1>>)))
    ELSE [waveform |-> waveform, sample_rate |-> sample_rate,
          tables |-> tables, frequency_bounds |-> frequency_bounds]

\* WaveTableBank::new
WaveTableBankNew(waveform, sample_rate) ==
    BuildTables(waveform, table_len(sample_rate), max_harmonics(sample_rate),
                Rat(BASE_FREQ * 2, sample_rate), sample_rate, <<>>, <<>>)

\* slice::binary_search_by over frequency_bounds (indices from 0): the index
\* of an equal bound, or the insertion point
RECURSIVE binary_search_by(_, _, _, _)
binary_search_by(bounds, freq, left, right) ==
    IF left >= right
    THEN [found |-> FALSE, index |-> left]
    ELSE IF RatLess(bounds[left + (right - left) \div 2 + 1], freq)
         THEN binary_search_by(bounds, freq, left + (right - left) \div 2 + 1, right)
         ELSE IF RatLess(freq, bounds[left + (right - left) \div 2 + 1])
              THEN binary_search_by(bounds, freq, left, left + (right - left) \div 2)
              ELSE [found |-> TRUE, index |-> left + (right - left) \div 2]

\* the match of find_table_index on the search's result
Matched(r, last) == IF r.found THEN r.index ELSE Min(r.index, last)

\* find_table_index without the clamp to the last table
find_table_index_unclamped(bank, freq) ==
    binary_search_by(bank.frequency_bounds, freq, 0, Len(bank.frequency_bounds)).index

\* WaveTableBank::find_table_index
find_table_index(bank, freq) ==
    Matched(binary_search_by(bank.frequency_bounds, freq, 0, Len(bank.frequency_bounds)),
            Len(bank.tables) - 1)

\* BandlimitedWavetableOscillator::new, held by the caller behind an
\* Arc<Mutex<..>> whose poison flag is `poisoned`
WavetableNew(waveform, sample_rate) ==
    [made |-> TRUE, bank |-> WaveTableBankNew(waveform, sample_rate),
     sample_rate |-> sample_rate,
     frequency |-> FreqDefault, phase |-> <<0, 1>>, phase_increment |-> <<0, 1>>,
     current_table |-> 0, last_freq |-> 0, interpolation_mode |-> "Linear",
     poisoned |-> FALSE, count |-> 0]

\* r * size / d as <<whole, rest>> with rest < d, for size a power of two
Doubled(h, d) == <<2 * h[1] + (IF 2 * h[2] >= d THEN 1 ELSE 0), (2 * h[2]) % d>>

RECURSIVE Scaled(_, _, _)
Scaled(r, d, size) == IF size = 1 THEN <<0, r>> ELSE Doubled(Scaled(r, d, size \div 2), d)

\* (phase * table_size) as usize
IntPart(phase, size) == (phase[1] \div phase[2]) * size + Scaled(phase[1] % phase[2], phase[2], size)[1]

\* the update of process that keeps the table it played before
RetunedKeepingTable(o) ==
    IF o.frequency # o.last_freq
    THEN [o EXCEPT !.phase_increment = Rat(o.frequency, HzUnits * o.sample_rate),
                   !.last_freq = o.frequency]
    ELSE o

\* the update of process when the frequency changed
Retuned(o) ==
    IF o.frequency # o.last_freq
    THEN [o EXCEPT !.phase_increment = Rat(o.frequency, HzUnits * o.sample_rate),
                   !.last_freq = o.frequency,
                   !.current_table = find_table_index(o.bank, Rat(o.frequency, HzUnits))]
    ELSE o

\* &self.bank.tables[self.current_table]
CurrentTable(o) == o.bank.tables[o.current_table + 1]

\* idx = int_part & table_mask
Index(o) == IntPart(o.phase, CurrentTable(o).table_size) % (CurrentTable(o).table_mask + 1)

\* the highest index the interpolation reads
HighestRead(mode, idx) == IF mode = "Cubic" THEN idx + 2 ELSE idx + 1

\* self.phase += self.phase_increment; if self.phase >= 1.0 { self.phase -= 1.0 }
Wrapped(phase) == IF phase[1] >= phase[2] THEN RatSub(phase, <<1, 1>>) ELSE phase

AdvancePhase(o) ==
    [o EXCEPT !.phase = Wrapped(RatAdd(o.phase, o.phase_increment)), !.count = o.count + 1]

\* process on the retuned oscillator: the read past the table's end panics
\* inside the mutex and poisons it
Interpolated(o, idx) ==
    IF HighestRead(o.interpolation_mode, idx) >= CurrentTable(o).samples
    THEN [osc |-> [o EXCEPT !.poisoned = TRUE, !.count = o.count + 1],
          result |-> "panic", idx |-> idx, poisoned |-> FALSE]
    ELSE [osc |-> AdvancePhase(o), result |-> "sample", idx |-> idx, poisoned |-> FALSE]

\* <Arc<Mutex<T>> as AudioNode>::process: lock().unwrap(), then T::process
WavetableProcess(o) ==
    IF o.poisoned
    THEN [osc |-> o, result |-> "panic", idx |-> 0, poisoned |-> TRUE]
    ELSE Interpolated(Retuned(o), Index(Retuned(o)))

\* the waveforms and frequencies the callers use
Waveforms == {"Sine", "Square", "Sawtooth", "Triangle"}
FrequencyValues == {0, 2000, 44000, 1000000, 2204780, 3000000}

wt_new(waveform, sample_rate) ==
    /\ ~wt.made
    /\ ~blep.made
    /\ wt' = WavetableNew(waveform, sample_rate)
    /\ oscOp' = [op |-> "new"]
    /\ UNCHANGED blep

\* frequency().set_value(value)
wt_set_frequency(value) ==
    /\ wt.made
    /\ wt' = [wt EXCEPT !.frequency = Clamp(value, FreqMin, FreqMax)]
    /\ oscOp' = [op |-> "set_frequency"]
    /\ UNCHANGED blep

wt_set_interpolation_mode(mode) ==
    /\ wt.made
    /\ wt' = [wt EXCEPT !.interpolation_mode = mode]
    /\ oscOp' = [op |-> "set_interpolation_mode"]
    /\ UNCHANGED blep

Processed(r) ==
    /\ wt' = r.osc
    /\ oscOp' = [op |-> "process", result |-> r.result, idx |-> r.idx, poisoned |-> r.poisoned]
    /\ UNCHANGED blep

wt_process ==
    /\ wt.made
    /\ wt.count < MaxProcess \/ wt.poisoned
    /\ Processed(WavetableProcess(wt))

(***************************************************************************)
(* The PolyBLEP Oscillator (oscillator.rs).  A sample is kept as a record: *)
(* an exact rational for Square and Sawtooth, the phase whose sine it is   *)
(* for Sine, and for Triangle the contributions c_1 .. c_n that the leaky  *)
(* integrator has summed, standing for the sum of 0.999^(n - k) * c_k.     *)
(***************************************************************************)
\* Oscillator::new, rendered with a context of this sample rate
OscillatorNew(osc_type, sample_rate) ==
    [made |-> TRUE, osc_type |-> osc_type, sample_rate |-> sample_rate,
     frequency |-> FreqDefault, gain |-> GainDefault,
     phase |-> <<0, 1>>, triangle_state |-> <<>>, count |-> 0]

\* fmod(x, y) = x - (x / y).floor() * y
fmod(x, y) == RatSub(x, RatMul(<<Floor(RatDiv(x, y)), 1>>, y))

\* the two polynomials of poly_blep, on the rescaled t
BlepAfter(t) == RatSub(RatSub(RatMul(<<2, 1>>, t), RatMul(t, t)), <<1, 1>>)
BlepBefore(t) == RatAdd(RatAdd(RatMul(t, t), RatMul(<<2, 1>>, t)), <<1, 1>>)

\* Oscillator::poly_blep
poly_blep(t, dt) ==
    IF RatLess(t, dt) THEN BlepAfter(RatDiv(t, dt))
    ELSE IF RatLess(RatSub(<<1, 1>>, dt), t) THEN BlepBefore(RatDiv(RatSub(t, <<1, 1>>), dt))
    ELSE <<0, 1>>

\* if self.phase < 0.5 { 1.0 } else { -1.0 }, with both corrections
SquareBl(phase, dt) ==
    RatSub(RatAdd(IF RatLess(phase, <<1, 2>>) THEN <<1, 1>> ELSE <<-1, 1>>, poly_blep(phase, dt)),
           poly_blep(fmod(RatAdd(phase, <<1, 2>>), <<1, 1>>), dt))

\* 2.0 * self.phase - 1.0, with its correction
SawtoothBl(phase, dt) ==
    RatSub(RatSub(RatMul(<<2, 1>>, phase), <<1, 1>>), poly_blep(phase, dt))

\* self.triangle_state = 0.999 * self.triangle_state + square_bl * integration_scale
Integrated(o, dt) == Append(o.triangle_state, RatMul(SquareBl(o.phase, dt), RatMul(<<2, 1>>, dt)))

\* the match of process_bandlimited
BlepOutput(o, dt) ==
    IF o.osc_type = "Sine" THEN [kind |-> "sin", turns |-> o.phase]
    ELSE IF o.osc_type = "Square" THEN [kind |-> "exact", value |-> SquareBl(o.phase, dt)]
    ELSE IF o.osc_type = "Sawtooth" THEN [kind |-> "exact", value |-> SawtoothBl(o.phase, dt)]
    ELSE [kind |-> "leaky", terms |-> Integrated(o, dt)]

\* self.phase += dt; self.phase = fmod(self.phase, 1.0)
NextPhase(phase, dt) == fmod(RatAdd(phase, dt), <<1, 1>>)

\* Oscillator::process_bandlimited: the oscillator it leaves
BlepAdvanced(o, dt) ==
    [o EXCEPT !.phase = NextPhase(o.phase, dt),
              !.triangle_state = IF o.osc_type = "Triangle" THEN Integrated(o, dt) ELSE @,
              !.count = o.count + 1]

\* let dt = freq / sample_rate
Dt(o) == Rat(o.frequency, HzUnits * o.sample_rate)

\* the frequencies and gains the callers set
BlepFrequencies == {0, 44000, 1102500, 2205000, 3000000}
GainValues == {GainMin, GainMax + 1}

blep_new(osc_type, sample_rate) ==
    /\ ~blep.made
    /\ ~wt.made
    /\ blep' = OscillatorNew(osc_type, sample_rate)
    /\ oscOp' = [op |-> "new"]
    /\ UNCHANGED wt

\* frequency().set_value(value), before rendering starts
blep_set_frequency(value) ==
    /\ blep.made
    /\ blep.count = 0
    /\ blep' = [blep EXCEPT !.frequency = Clamp(value, FreqMin, FreqMax)]
    /\ oscOp' = [op |-> "set_frequency"]
    /\ UNCHANGED wt

\* gain().set_value(value)
blep_set_gain(value) ==
    /\ blep.made
    /\ blep' = [blep EXCEPT !.gain = Clamp(value, GainMin, GainMax)]
    /\ oscOp' = [op |-> "set_gain"]
    /\ UNCHANGED wt

\* Oscillator::process: output * self.gain.get_value(current_sample)
blep_process ==
    /\ blep.made
    /\ blep.count < MaxProcess
    /\ blep' = BlepAdvanced(blep, Dt(blep))
    /\ oscOp' = [op |-> "process", result |-> "sample",
                 output |-> BlepOutput(blep, Dt(blep)), gain |-> blep.gain]
    /\ UNCHANGED wt

InitOscillators == Init

NextOscillators ==
    \/ \E w \in Waveforms, r \in ClockRates : wt_new(w, r) /\ UNCHANGED <<paramVars, graphVars, bankVars, lockVars>>
    \/ \E v \in FrequencyValues : wt_set_frequency(v) /\ UNCHANGED <<paramVars, graphVars, bankVars, lockVars>>
    \/ \E m \in InterpolationType : wt_set_interpolation_mode(m) /\ UNCHANGED <<paramVars, graphVars, bankVars, lockVars>>
    \/ wt_process /\ UNCHANGED <<paramVars, graphVars, bankVars, lockVars>>
    \/ \E w \in Waveforms, r \in ClockRates : blep_new(w, r) /\ UNCHANGED <<paramVars, graphVars, bankVars, lockVars>>
    \/ \E v \in BlepFrequencies : blep_set_frequency(v) /\ UNCHANGED <<paramVars, graphVars, bankVars, lockVars>>
    \/ \E v \in GainValues : blep_set_gain(v) /\ UNCHANGED <<paramVars, graphVars, bankVars, lockVars>>
    \/ blep_process /\ UNCHANGED <<paramVars, graphVars, bankVars, lockVars>>

SpecOscillators == InitOscillators /\ [][NextOscillators]_vars

(***************************************************************************)
(* An AudioProcessor of the caller's own (arcs[1]), with up to two inputs  *)
(* attached by connect_input and processed at the samples 0..MaxSample.    *)
(***************************************************************************)
\* the nodes attached as inputs: oscillators at two phases, and a processor
\* without inputs
Children ==
    { PlainBox(NewOscillator),
      PlainBox([NewOscillator EXCEPT !.phase = 1]),
      PlainBox(NewProcessor) }

\* the input names passed to connect_input and clear_input
ProcessorInputs == { InputOrder[i] : i \in 1..Len(InputOrder) }

\* let mut p = AudioProcessor::new("gain")
processor_new ==
    /\ arcs = <<>>
    /\ arcs' = <<NewProcessor>>
    /\ graphOp' = [op |-> "processor_new"]
    /\ UNCHANGED <<nodes, output_node, playing, stream, context, control, callback, buffer>>

\* p.connect_input(name, child)
processor_connect_input(name, child) ==
    /\ Len(arcs) = 1
    /\ arcs' = [arcs EXCEPT ![1] = NodeConnectInput(@, name, child)]
    /\ graphOp' = [op |-> "connect_input", name |-> name, child |-> child]
    /\ UNCHANGED <<nodes, output_node, playing, stream, context, control, callback, buffer>>

\* p.clear_input(name)
processor_clear_input(name) ==
    /\ Len(arcs) = 1
    /\ arcs' = [arcs EXCEPT ![1] = NodeClearInput(@, name)]
    /\ graphOp' = [op |-> "clear_input", name |-> name]
    /\ UNCHANGED <<nodes, output_node, playing, stream, context, control, callback, buffer>>

\* the processor and the sample p.process(&context, s) leaves
ProcessorProcessed(r, s) ==
    /\ arcs' = <<r.node>>
    /\ graphOp' = [op |-> "process", sample |-> s, out |-> r.out]
    /\ UNCHANGED <<nodes, output_node, playing, stream, context, control, callback, buffer>>

\* p.process(&context, s)
processor_process(s) ==
    /\ Len(arcs) = 1
    /\ ProcessorProcessed(ProcessNode(arcs[1], arcs, {1}, s), s)

NextProcessor ==
    \/ processor_new /\ UNCHANGED <<paramVars, bankVars, oscVars, lockVars>>
    \/ \E n \in ProcessorInputs, c \in Children :
          processor_connect_input(n, c) /\ UNCHANGED <<paramVars, bankVars, oscVars, lockVars>>
    \/ \E n \in ProcessorInputs :
          processor_clear_input(n) /\ UNCHANGED <<paramVars, bankVars, oscVars, lockVars>>
    \/ \E h \in Handles, v \in GainTargets :
          set_parameter(h, v) /\ UNCHANGED <<paramVars, bankVars, oscVars, lockVars>>
    \/ \E h \in Handles, v \in GainTargets, a \in Anchors :
          /\ arcs[h].gain.events = <<>>
          /\ ramp_gain(h, v, MaxHalves, a)
          /\ UNCHANGED <<paramVars, bankVars, oscVars, lockVars>>
    \/ \E s \in Samples : processor_process(s) /\ UNCHANGED <<paramVars, bankVars, oscVars, lockVars>>

SpecProcessor == InitGraph /\ [][NextProcessor]_vars

(***************************************************************************)
(* The parameter under two threads: the audio thread inside get_value and  *)
(* the control thread inside one call at a time, step by step around the   *)
(* RwLock of the event list.  A read lock is granted while no writer holds *)
(* the lock, a write lock while nobody holds it.                           *)
(***************************************************************************)
\* what get_value yields at sample s before the control thread's call in
\* progress began: reset has stored the default over the value `old`
BeforeCall(s) ==
    get_value(IF writer.call = "reset" THEN writer.old ELSE current_value, events, s)

\* get_value: let mut value = self.current_value.load().  The calls of the
\* control thread that overlap the get_value call are counted in `n` (one,
\* or more than one); of a single one `call` is the name and `before` what
\* get_value yielded before it began.
audio_load(s) ==
    /\ audio.pc \in {"idle", "returned"}
    /\ audio' = [pc |-> "read", sample |-> s, loaded |-> current_value,
                 n |-> IF writer.pc = "idle" THEN 0 ELSE 1,
                 call |-> IF writer.pc = "idle" THEN "none" ELSE writer.call,
                 before |-> IF writer.pc = "idle" THEN <<0, 1>> ELSE BeforeCall(s)]
    /\ UNCHANGED <<paramVars, eventsLock, writer>>

\* the audio thread's record when the control thread begins a call
Overlapped(call) ==
    IF audio.pc \in {"read", "reading"}
    THEN [audio EXCEPT !.n = Min(@ + 1, 2),
                       !.call = IF audio.n = 0 THEN call ELSE "many",
                       !.before = IF audio.n = 0
                                  THEN get_value(current_value, events, audio.sample)
                                  ELSE <<0, 1>>]
    ELSE audio

\* get_value: let events = self.events.read().unwrap()
audio_read ==
    /\ audio.pc = "read"
    /\ ~eventsLock.writer
    /\ eventsLock' = [eventsLock EXCEPT !.readers = @ + 1]
    /\ audio' = [audio EXCEPT !.pc = "reading"]
    /\ UNCHANGED <<paramVars, writer>>

\* get_value that stores the end value of a completed first event as the
\* current value
audio_return_storing ==
    /\ audio.pc = "reading"
    /\ eventsLock' = [eventsLock EXCEPT !.readers = @ - 1]
    /\ audio' = [pc |-> "returned", sample |-> audio.sample,
                 value |-> get_value(audio.loaded, events, audio.sample)]
    /\ current_value' = IF events # <<>> /\ Completed(events[1], audio.sample)
                        THEN events[1].end_value ELSE current_value
    /\ UNCHANGED <<default_value, min_value, max_value, events, lastOp, cancelled, writer>>

\* get_value: the loop over the events, the guard dropped at the return
audio_return ==
    /\ audio.pc = "reading"
    /\ eventsLock' = [eventsLock EXCEPT !.readers = @ - 1]
    /\ audio' = [pc |-> "returned", sample |-> audio.sample,
                 value |-> get_value(audio.loaded, events, audio.sample)]
    /\ UNCHANGED <<paramVars, writer>>

\* set_value: one atomic store, no lock
locked_set_value(value) ==
    /\ writer.pc = "idle"
    /\ current_value' = clamp_value(value)
    /\ audio' = Overlapped("set_value")
    /\ UNCHANGED <<default_value, min_value, max_value, events, lastOp, cancelled, eventsLock, writer>>

\* a schedule call up to its lock: the event is built from the value clamped
\* and the current value loaded
call_schedule(kind, value, halves, start_sample) ==
    /\ writer.pc = "idle"
    /\ Len(events) < MaxEvents
    /\ writer' = [pc |-> "write", call |-> "schedule",
                  event |-> NewEvent(kind, value, halves, start_sample)]
    /\ audio' = Overlapped("schedule")
    /\ UNCHANGED <<paramVars, eventsLock>>

\* cancel_scheduled_values up to its lock
call_cancel ==
    /\ writer.pc = "idle"
    /\ writer' = [pc |-> "write", call |-> "cancel_scheduled_values"]
    /\ audio' = Overlapped("cancel_scheduled_values")
    /\ UNCHANGED <<paramVars, eventsLock>>

\* reset up to its lock: self.current_value.store(self.default_value)
call_reset ==
    /\ writer.pc = "idle"
    /\ current_value' = default_value
    /\ writer' = [pc |-> "write", call |-> "reset", old |-> current_value]
    /\ audio' = Overlapped("reset")
    /\ UNCHANGED <<default_value, min_value, max_value, events, lastOp, cancelled, eventsLock>>

\* clone up to its lock
call_clone ==
    /\ writer.pc = "idle"
    /\ writer' = [pc |-> "read", call |-> "clone"]
    /\ audio' = Overlapped("clone")
    /\ UNCHANGED <<paramVars, eventsLock>>

\* self.events.write().unwrap()
writer_write ==
    /\ writer.pc = "write"
    /\ ~eventsLock.writer
    /\ eventsLock.readers = 0
    /\ eventsLock' = [eventsLock EXCEPT !.writer = TRUE]
    /\ writer' = [writer EXCEPT !.pc = "writing"]
    /\ UNCHANGED <<paramVars, audio>>

\* events.push(event) or events.clear(), the guard dropped at the return
writer_return ==
    /\ writer.pc = "writing"
    /\ events' = IF writer.call = "schedule" THEN Append(events, writer.event) ELSE <<>>
    /\ eventsLock' = [eventsLock EXCEPT !.writer = FALSE]
    /\ writer' = [pc |-> "idle"]
    /\ UNCHANGED <<current_value, default_value, min_value, max_value, lastOp, cancelled, audio>>

\* clone: self.events.read().unwrap()
clone_read ==
    /\ writer.pc = "read"
    /\ ~eventsLock.writer
    /\ eventsLock' = [eventsLock EXCEPT !.readers = @ + 1]
    /\ writer' = [writer EXCEPT !.pc = "reading"]
    /\ UNCHANGED <<paramVars, audio>>

\* clone: events.clone(), the guard dropped at the end of the block
clone_return ==
    /\ writer.pc = "reading"
    /\ eventsLock' = [eventsLock EXCEPT !.readers = @ - 1]
    /\ writer' = [pc |-> "idle"]
    /\ UNCHANGED <<paramVars, audio>>

\* the steps of a thread that is inside a call
AudioStep == (audio_read \/ audio_return) /\ UNCHANGED <<graphVars, bankVars, oscVars>>
WriterStep ==
    (writer_write \/ writer_return \/ clone_read \/ clone_return) /\ UNCHANGED <<graphVars, bankVars, oscVars>>

NextLock ==
    \/ \E s \in Samples : audio_load(s) /\ UNCHANGED <<graphVars, bankVars, oscVars>>
    \/ audio_read /\ UNCHANGED <<graphVars, bankVars, oscVars>>
    \/ audio_return /\ UNCHANGED <<graphVars, bankVars, oscVars>>
    \/ \E v \in NearValues : locked_set_value(v) /\ UNCHANGED <<graphVars, bankVars, oscVars>>
    \/ \E k \in RampType, a \in Anchors :
          call_schedule(k, max_value, MaxHalves, a) /\ UNCHANGED <<graphVars, bankVars, oscVars>>
    \/ call_cancel /\ UNCHANGED <<graphVars, bankVars, oscVars>>
    \/ call_reset /\ UNCHANGED <<graphVars, bankVars, oscVars>>
    \/ call_clone /\ UNCHANGED <<graphVars, bankVars, oscVars>>
    \/ writer_write /\ UNCHANGED <<graphVars, bankVars, oscVars>>
    \/ writer_return /\ UNCHANGED <<graphVars, bankVars, oscVars>>
    \/ clone_read /\ UNCHANGED <<graphVars, bankVars, oscVars>>
    \/ clone_return /\ UNCHANGED <<graphVars, bankVars, oscVars>>

\* Both threads are scheduled: a thread whose next step stays possible takes
\* it.  The lock itself promises no order among the threads that want it.
SpecLock == Init /\ [][NextLock]_vars /\ WF_vars(AudioStep) /\ WF_vars(WriterStep)

\* The same under a lock that is fair to a reader that is enabled again and
\* again.
SpecFairLock == SpecLock /\ SF_vars(AudioStep)

(***************************************************************************)
(* Properties of the parameter.                                            *)
(***************************************************************************)
ScheduleOps == {"linear", "exponential"}

\* the event appended by the last schedule call
Newest == events[Len(events)]

\* some event has started at sample s
Started(evs, s) == \E i \in 1..Len(evs) : evs[i].start_sample <= s

\* the last event, in insertion order, that has started at sample s
LastStarted(evs, s) ==
    LET started == { i \in 1..Len(evs) : evs[i].start_sample <= s }
    IN  evs[CHOOSE i \in started : \A j \in started : j <= i]

\* clamp(v, min, max), written out
Clamped(v) == IF v < min_value THEN min_value ELSE IF v > max_value THEN max_value ELSE v

\* the value n on the grid, as a rational
Whole(n) == <<n, 1>>

\* C1: at every sample s at which an event has started, get_value(s) is decided
\* by the last event in insertion order with start_sample <= s alone: its
\* interpolated value while s < start_sample + duration_samples, its end_value
\* afterwards, also when an earlier-inserted event is still in progress at s.
C1_LatestStartedWins ==
    \A s \in Samples :
        Started(events, s) =>
            LET e == LastStarted(events, s)
            IN  ValueAt(s) = IF s < EndSample(e) THEN RampValue(e, s) ELSE Whole(e.end_value)

\* C2 as stated: after set_value(a) and one schedule_linear(b, D samples, anchor A)
\* on a parameter without events, get_value(A + k) = a + (b - a) * k / D for
\* 0 <= k < D and get_value(s) = clamp(b) for s >= A + D.
C2_LinearRampFromRawValues ==
    [][ (lastOp.op = "set_value" /\ events = <<>> /\ lastOp'.op = "linear") =>
          LET a == lastOp.value
              b == lastOp'.value
              A == lastOp'.anchor
              D == events'[1].duration_samples
          IN  /\ \A k \in 0..(D - 1) :
                    get_value(current_value', events', A + k) = Rat(a * D + (b - a) * k, D)
              /\ \A s \in (A + D)..(A + D + MaxSample) :
                    get_value(current_value', events', s) = Whole(Clamped(b))
      ]_vars

\* C2 as amended: the same with the clamped values: get_value(A + k) =
\* a' + (b' - a') * k / D for 0 <= k < D, where a' = clamp(a) and b' = clamp(b),
\* and get_value(s) = b' for s >= A + D.
C2_LinearRampFromClampedValues ==
    [][ (lastOp.op = "set_value" /\ events = <<>> /\ lastOp'.op = "linear") =>
          LET a == Clamped(lastOp.value)
              b == Clamped(lastOp'.value)
              A == lastOp'.anchor
              D == events'[1].duration_samples
          IN  /\ \A k \in 0..(D - 1) :
                    get_value(current_value', events', A + k) = Rat(a * D + (b - a) * k, D)
              /\ \A s \in (A + D)..(A + D + MaxSample) :
                    get_value(current_value', events', s) = Whole(b)
      ]_vars

\* a four-sample linear ramp from 0 to 3, anchored at sample 1, is the only
\* event: it passes 3/4, 3/2 and 9/4 and ends at 3
C2_Witness ==
    /\ lastOp.op = "linear"
    /\ lastOp.anchor = 1
    /\ lastOp.value > max_value
    /\ Len(events) = 1
    /\ events[1].duration_samples = 4
    /\ events[1].start_value = 0
    /\ events[1].end_value = 3
    /\ current_value = 0
    /\ ValueAt(0) = Whole(0)
    /\ ValueAt(1) = Whole(0)
    /\ ValueAt(2) = <<3, 4>>
    /\ ValueAt(3) = <<3, 2>>
    /\ ValueAt(4) = <<9, 4>>
    /\ ValueAt(5) = Whole(3)

\* C3: with an empty event list, after set_value(v) get_value(s) equals
\* clamp(v, min, max) at every sample s.
C3_SetValueClamps ==
    (lastOp.op = "set_value" /\ events = <<>>) =>
        \A s \in Samples : ValueAt(s) = Whole(Clamped(lastOp.value))

\* set_value was called with a value below the range and no event is pending
C3_Witness ==
    /\ lastOp.op = "set_value"
    /\ events = <<>>
    /\ lastOp.value < min_value
    /\ ValueAt(0) = Whole(min_value)

\* C4: set_value replaces only current_value: the event list and the
\* parameter's range and default are unchanged, and at every sample s at which
\* some event has started get_value(s) is the same before and after the call.
C4_SetValueKeepsSchedule ==
    [][ lastOp'.op = "set_value" =>
          /\ events' = events
          /\ <<default_value, min_value, max_value>>' = <<default_value, min_value, max_value>>
          /\ current_value' # current_value =>
                \A s \in Samples :
                    Started(events, s) =>
                        get_value(current_value', events', s) = get_value(current_value, events, s)
      ]_vars

\* set_value has just changed current_value to a value the started ramp does
\* not yield, and the ramp still decides get_value
C4_Witness ==
    /\ lastOp.op = "set_value"
    /\ events # <<>>
    /\ \E s \in Samples :
          /\ Started(events, s)
          /\ ValueAt(s) # Whole(current_value)
          /\ ~ Started(events, 0)
          /\ ValueAt(0) = Whole(current_value)

\* C5: a schedule call with anchor A leaves get_value(s) unchanged at every
\* s < A, and at every sample earlier than the start_sample of every event
\* get_value returns current_value.
C5_RampWaitsForAnchor ==
    [][ /\ (lastOp'.op \in ScheduleOps /\ events' # events) =>
              \A s \in Samples :
                  s < lastOp'.anchor =>
                      get_value(current_value', events', s) = get_value(current_value, events, s)
        /\ \A s \in Samples :
              ~ Started(events', s) => get_value(current_value', events', s) = Whole(current_value')
      ]_vars

\* a ramp was scheduled at anchor 1 on top of a started one: sample 0 keeps the
\* value it had, and the new ramp decides a later sample
C5_Witness ==
    /\ lastOp.op \in ScheduleOps
    /\ lastOp.anchor = 1
    /\ Len(events) = 2
    /\ events[1].start_sample = 0
    /\ ValueAt(0) = RampValue(events[1], 0)
    /\ ValueAt(MaxSample) = Whole(Newest.end_value)
    /\ ValueAt(MaxSample) # Whole(events[1].end_value)

\* C6: cancel_scheduled_values empties the event list, and from then until the
\* next schedule call get_value(s) equals current_value at every sample s.
C6_CancelRestoresCurrent ==
    /\ lastOp.op = "cancel" => events = <<>>
    /\ cancelled => \A s \in Samples : ValueAt(s) = Whole(current_value)

\* a full list of events was cancelled
C6_Witness ==
    /\ lastOp.op = "cancel"
    /\ lastOp.dropped = MaxEvents
    /\ cancelled
    /\ events = <<>>

\* C7: every reset leaves current_value = default_value and no events, so
\* get_value(s) = default_value at every sample s; a reset right after a reset
\* changes nothing.
C7_ResetToDefault ==
    [][ lastOp'.op = "reset" =>
          /\ current_value' = default_value'
          /\ events' = <<>>
          /\ \A s \in Samples : get_value(current_value', events', s) = Whole(default_value')
          /\ lastOp.op = "reset" => (current_value' = current_value /\ events' = events)
      ]_vars

\* reset dropped a full list of events
C7_Witness ==
    /\ lastOp.op = "reset"
    /\ lastOp.dropped = MaxEvents
    /\ events = <<>>
    /\ current_value = default_value

\* max(1, round(h / 2)): the product rounded to the nearest integer (halves away
\* from zero, negative products to 0), then the lower bound of 1
RoundedDuration(h) == Max(IF h < 0 THEN 0 ELSE (h + 1) \div 2, 1)

\* C8: every schedule call stores duration_samples = max(1, round(duration_s *
\* sample_rate)), the product rounded to the nearest integer.
C8_DurationIsRounded ==
    lastOp.op \in ScheduleOps => Newest.duration_samples = RoundedDuration(lastOp.halves)

\* C9: a ramp scheduled with duration 0 at anchor A, as the only event, has
\* duration_samples = 1, get_value(A) is its start_value and get_value(s) is its
\* end_value at every s > A.
C9_ZeroDurationRamp ==
    (lastOp.op \in ScheduleOps /\ lastOp.halves = 0 /\ Len(events) = 1) =>
        /\ events[1].duration_samples = 1
        /\ ValueAt(lastOp.anchor) = Whole(events[1].start_value)
        /\ \A s \in Samples : s > lastOp.anchor => ValueAt(s) = Whole(events[1].end_value)

\* a value is at least Epsilon (a term s * (e / s)^(k / d) lies between s and e)
AtLeastEpsilon(value) ==
    IF Len(value) = 2
    THEN value[1] >= Epsilon * value[2]
    ELSE value[1] >= Epsilon /\ value[2] >= Epsilon

\* C10: every Exponential event of the list has start_value >= Epsilon and
\* end_value >= Epsilon, and where an Exponential event decides get_value(s)
\* (in progress or completed) the value is at least Epsilon.
C10_ExponentialAboveEpsilon ==
    /\ \A i \in 1..Len(events) :
          events[i].ramp_type = "Exponential" =>
              events[i].start_value >= Epsilon /\ events[i].end_value >= Epsilon
    /\ \A s \in Samples :
          (Len(events) = 1 /\ events[1].ramp_type = "Exponential" /\ Started(events, s)) =>
              AtLeastEpsilon(ValueAt(s))

GeometricTerm(a, b, k, D) ==
    IF k = 0 \/ a = b
    THEN Whole(a)
    ELSE <<a, b, k \div GCD(k, D), D \div GCD(k, D)>>

\* C28 as stated: after set_value(a) and one schedule_exponential(b, D samples,
\* anchor A) with a, b >= epsilon on a parameter without events,
\* get_value(A + k) = a * (b / a)^(k / D) for 0 <= k < D and get_value(s) =
\* clamp(b) for s >= A + D.
C28_ExponentialRampFromRawValues ==
    [][ ( /\ lastOp.op = "set_value" /\ events = <<>> /\ lastOp'.op = "exponential"
          /\ lastOp.value >= Epsilon /\ lastOp'.value >= Epsilon ) =>
          LET a == lastOp.value
              b == lastOp'.value
              A == lastOp'.anchor
              D == events'[1].duration_samples
          IN  /\ \A k \in 0..(D - 1) :
                    get_value(current_value', events', A + k) = GeometricTerm(a, b, k, D)
              /\ \A s \in (A + D)..(A + D + MaxSample) :
                    get_value(current_value', events', s) = Whole(Clamped(b))
      ]_vars

\* C28 as amended: the same with the clamped values: get_value(A + k) =
\* a' * (b' / a')^(k / D) for 0 <= k < D, where a' = clamp(a) and b' = clamp(b)
\* (the geometric mean of a' and b' at k = D / 2), and get_value(s) = b' for
\* s >= A + D.
C28_ExponentialRampFromClampedValues ==
    [][ ( /\ lastOp.op = "set_value" /\ events = <<>> /\ lastOp'.op = "exponential"
          /\ lastOp.value >= Epsilon /\ lastOp'.value >= Epsilon ) =>
          LET a == Clamped(lastOp.value)
              b == Clamped(lastOp'.value)
              A == lastOp'.anchor
              D == events'[1].duration_samples
          IN  /\ \A k \in 0..(D - 1) :
                    get_value(current_value', events', A + k) = GeometricTerm(a, b, k, D)
              /\ \A s \in (A + D)..(A + D + MaxSample) :
                    get_value(current_value', events', s) = Whole(b)
      ]_vars

\* a four-sample exponential ramp from 1 to the clamped target 4, anchored at
\* sample 1, is the only event: at its middle it is at the geometric mean of 1
\* and 4
C28_Witness ==
    /\ lastOp.op = "exponential"
    /\ lastOp.anchor = 1
    /\ lastOp.value > max_value
    /\ Len(events) = 1
    /\ events[1].duration_samples = 4
    /\ events[1].start_value = 1
    /\ events[1].end_value = 4
    /\ ValueAt(3) = <<1, 4, 1, 2>>

(***************************************************************************)
(* Properties of the callback and the clock.                               *)
(***************************************************************************)
\* the step is a call of the callback that found the playing flag set and returned
PlayingFill == graphOp'.op = "fill" /\ playing /\ graphOp'.returned

\* C12: a callback that finds the playing flag false writes the equilibrium
\* value to every sample of its buffer, evaluates no node (the callback's
\* output node and the nodes behind the handles are as they were) and leaves
\* the clock's current_sample unchanged.
C12_SilentWhenNotPlaying ==
    [][ (graphOp'.op = "fill" /\ ~ playing) =>
          /\ Len(buffer') = graphOp'.frames * graphOp'.channels
          /\ \A k \in 1..Len(buffer') : buffer'[k] = Equilibrium
          /\ graphOp'.samples = <<>>
          /\ stream' = stream
          /\ arcs' = arcs
          /\ context' = context
      ]_vars

\* between the two parts of stop, with the clock already advanced, a callback
\* filled a buffer of MaxChannels channels with the equilibrium value
C12_Witness ==
    /\ graphOp.op = "fill"
    /\ ~ playing
    /\ control = "stop"
    /\ stream.open
    /\ context.current_sample > 0
    /\ graphOp.frames > 0
    /\ graphOp.channels = MaxChannels
    /\ buffer[Len(buffer)] = Equilibrium

BoundaryJoin(whole, first, second, end) ==
    /\ second.box = whole.box
    /\ second.arcs = whole.arcs
    /\ first.samples \o second.samples = whole.samples
    /\ first.values \o second.values = whole.values
    /\ end = context'

\* the buffer of F frames split after k frames, `first` being the callback on
\* the k frames and `middle` the clock after it
BoundarySplit(whole, first, middle, k, F, C) ==
    BoundaryJoin(whole, first,
                 Render(first.box, first.arcs, (F - k) * C, middle.current_sample, C),
                 increment_samples(middle, NumFrames((F - k) * C, C)))

\* the step is the callback `whole` on F frames, and every split of the buffer
\* agrees with it
BoundaryWhole(whole, F, C) ==
    /\ stream'.output_node = whole.box
    /\ arcs' = whole.arcs
    /\ graphOp'.samples = whole.samples
    /\ graphOp'.values = whole.values
    /\ \A k \in 0..F :
          BoundarySplit(whole,
                        Render(stream.output_node, arcs, k * C, context.current_sample, C),
                        increment_samples(context, NumFrames(k * C, C)),
                        k, F, C)

\* C14: rendering is independent of the buffer boundaries: a callback on F
\* frames leaves the same samples and values per frame, the same nodes and the
\* same clock as a callback on k frames followed by one on F - k frames, for
\* every 0 <= k <= F.
C14_BufferBoundaries ==
    [][ PlayingFill =>
          BoundaryWhole(Render(stream.output_node, arcs,
                               graphOp'.frames * graphOp'.channels,
                               context.current_sample, graphOp'.channels),
                        graphOp'.frames, graphOp'.channels)
      ]_vars

\* the second of two callbacks rendered sample 1 of a shared oscillator in the
\* middle of a ramp of its gain: phase step 1, gain 1/2
C14_Witness ==
    /\ graphOp.op = "fill"
    /\ graphOp.playing
    /\ graphOp.returned
    /\ graphOp.base = 1
    /\ graphOp.frames = 1
    /\ graphOp.values[1] = <<"osc", 1, <<1, 2>>>>
    /\ stream.output_node.kind = "handle"

\* C15: over every sequence of graph operations the clock's current_sample,
\* read through the graph's context, never decreases and is changed by the
\* callback only, and the clock's sample_rate never changes.
C15_ClockMonotonic ==
    [][ /\ context'.current_sample >= context.current_sample
        /\ context'.current_sample # context.current_sample => graphOp'.op = "fill"
        /\ context'.sample_rate = context.sample_rate
      ]_vars

(***************************************************************************)
(* Properties of the registry and the wiring.                              *)
(***************************************************************************)
\* the node a box gives access to
NodeOf(box, hp) == IF box.kind = "handle" THEN hp[box.ref] ELSE box.node

\* the handles met from a box through the inputs
RECURSIVE ReachBox(_, _, _), ReachNode(_, _, _)
ReachNode(node, hp, seen) ==
    IF node.type = "osc"
    THEN {}
    ELSE UNION { ReachBox(node.inputs[k], hp, seen) : k \in DOMAIN node.inputs }
ReachBox(box, hp, seen) ==
    IF box.kind = "handle"
    THEN IF box.ref \in seen
         THEN {box.ref}
         ELSE {box.ref} \cup ReachNode(hp[box.ref], hp, seen \cup {box.ref})
    ELSE ReachNode(box.node, hp, seen)

\* what a box shows of its node: the gain with its events, the phase, and the
\* inputs in the same way
RECURSIVE StateOf(_, _, _), StateOfNode(_, _, _)
StateOfNode(node, hp, seen) ==
    IF node.type = "osc"
    THEN <<"osc", node.gain, node.phase>>
    ELSE <<"proc", node.gain, [k \in DOMAIN node.inputs |-> StateOf(node.inputs[k], hp, seen)]>>
StateOf(box, hp, seen) ==
    IF box.kind = "handle"
    THEN IF box.ref \in seen
         THEN <<"handle", box.ref>>
         ELSE StateOfNode(hp[box.ref], hp, seen \cup {box.ref})
    ELSE StateOfNode(box.node, hp, seen)

\* the graph is as it was: the registry, every node's inputs, the output node,
\* the playing flag, the stream and the clock
GraphUntouched ==
    /\ nodes' = nodes
    /\ arcs' = arcs
    /\ output_node' = output_node
    /\ playing' = playing
    /\ stream' = stream
    /\ context' = context

\* C16: connect with a missing from-node or a missing to-node, set_output with
\* a missing name and disconnect with a missing to-node change nothing: the
\* node map, every node's inputs, the output node, the playing flag and the
\* clock are as before.
C16_MissingNamesAreNoOps ==
    [][ /\ ( /\ graphOp'.op = "connect"
             /\ (graphOp'.from \notin DOMAIN nodes \/ graphOp'.to \notin DOMAIN nodes) )
           => GraphUntouched
        /\ (graphOp'.op = "set_output" /\ graphOp'.name \notin DOMAIN nodes) => GraphUntouched
        /\ (graphOp'.op = "disconnect" /\ graphOp'.to \notin DOMAIN nodes) => GraphUntouched
      ]_vars

\* connect was called from a wired processor of the registry to a name the
\* registry does not hold
C16_Witness ==
    /\ graphOp.op = "connect"
    /\ graphOp.from \in DOMAIN nodes
    /\ graphOp.to \notin DOMAIN nodes
    /\ NodeOf(nodes[graphOp.from], arcs).type = "proc"
    /\ NodeOf(nodes[graphOp.from], arcs).inputs # EmptyMap

C18_NoCycles ==
    /\ \A h \in Handles : h \notin ReachNode(arcs[h], arcs, {})
    /\ ProcessBox(output_node, arcs, {}, 0).returned

\* C19: whatever the control thread does between the frames, a callback renders
\* every frame of its buffer from one output node: the structure of inputs is
\* the same for all the frames of one buffer.
C19_OneOutputNodePerBuffer ==
    callback.state = "running" =>
        \A i \in DOMAIN callback.views, j \in DOMAIN callback.views :
            callback.views[i] = callback.views[j]

(***************************************************************************)
(* Properties of the bank registry.                                        *)
(***************************************************************************)
\* C20: under every interleaving of threads in WavetableOscillator::new and
\* initialize_banks, a bank is constructed at most once for each key
\* (waveform, integer sample rate), an entry of the registry is never removed
\* or replaced, and all oscillators created for one key hold the same bank,
\* the one the registry holds.
C20_OneBankPerKey ==
    /\ [](\A k \in DOMAIN built : built[k] <= 1)
    /\ [][\A k \in DOMAIN banks : k \in DOMAIN banks' /\ banks'[k] = banks[k]]_vars
    /\ [](\A t \in Threads, u \in Threads :
            ( /\ threads[t].call = "new" /\ threads[t].pc = "done"
              /\ threads[u].call = "new" /\ threads[u].pc = "done"
              /\ KeyOf(t) = KeyOf(u) )
            => /\ threads[t].bank = threads[u].bank
               /\ threads[t].bank = banks[KeyOf(t)])

\* two oscillators were created for one key from contexts whose sample rates
\* differ, and both calls have returned
C20_Witness ==
    \E t \in Threads, u \in Threads :
        /\ threads[t].call = "new" /\ threads[t].pc = "done"
        /\ threads[u].call = "new" /\ threads[u].pc = "done"
        /\ threads[t].sample_rate # threads[u].sample_rate
        /\ KeyOf(t) = KeyOf(u)
        /\ threads[t].bank.id > 0

\* the keys of the integer rate of a context at sample_rate
KeysAt(sample_rate) ==
    { <<oscillator_types[i], sample_rate_key(sample_rate)>> : i \in DOMAIN oscillator_types }

\* initialize_wave_banks has returned for a context at sample_rate
Initialized(sample_rate) ==
    \E t \in Threads :
        /\ threads[t].call = "init"
        /\ threads[t].pc = "done"
        /\ threads[t].sample_rate = sample_rate

\* C21: once initialize_banks has returned for a clock, the registry holds a
\* bank for each of Sine, Square, Sawtooth and Triangle at the clock's rate,
\* and no later step of a second initialize_banks or of a
\* WavetableOscillator::new at that rate constructs a bank or changes the
\* registry.
C21_InitializeIsIdempotent ==
    /\ [](\A r \in BankRates : Initialized(r) => are_wave_banks_initialized(r))
    /\ [][\A r \in BankRates : Initialized(r) =>
            \A k \in KeysAt(r) :
                /\ k \in DOMAIN built' /\ built'[k] = built[k]
                /\ k \in DOMAIN banks' /\ banks'[k] = banks[k]
         ]_vars

\* initialize_banks has returned, and a WavetableOscillator::new for a context
\* of the same integer rate but another rate has returned with the bank that
\* initialize_banks built
C21_Witness ==
    \E t \in Threads, u \in Threads :
        /\ threads[t].call = "init" /\ threads[t].pc = "done"
        /\ threads[u].call = "new" /\ threads[u].pc = "done"
        /\ threads[u].sample_rate # threads[t].sample_rate
        /\ threads[u].bank = banks[KeyOf(u)]
        /\ threads[u].bank.sample_rate = threads[t].sample_rate
        /\ \A k \in KeysAt(threads[t].sample_rate) : built[k] = 1

\* the inputs of the node a box gives access to (an oscillator has none)
InputsOf(box, hp) ==
    IF NodeOf(box, hp).type = "proc" THEN NodeOf(box, hp).inputs ELSE EmptyMap

\* disconnect removed from node `to` exactly the input whose key is `from`
RemovedByKey ==
    /\ DOMAIN nodes' = DOMAIN nodes
    /\ InputsOf(nodes'[graphOp'.to], arcs') = Remove(InputsOf(nodes[graphOp'.to], arcs), graphOp'.from)
    /\ NodeOf(nodes'[graphOp'.to], arcs').gain = NodeOf(nodes[graphOp'.to], arcs).gain
    /\ graphOp'.from \notin DOMAIN InputsOf(nodes[graphOp'.to], arcs) => GraphUntouched
    /\ <<playing', stream', context'>> = <<playing, stream, context>>

Apart(box, to, hp) == to.kind = "handle" => to.ref \notin ReachBox(box, hp, {})

StrictlyIncreasing(bounds) ==
    \A i \in 1..(Len(bounds) - 1) : RatLess(bounds[i], bounds[i + 1])

\* the bank of the oscillator was built at 44100 Hz
BankAt44100 == wt.made /\ wt.bank.sample_rate = 44100

\* C22: at 44100 Hz the bank of every waveform has at least 6 tables, its
\* bounds in Hz are strictly increasing, and its last bound is greater than
\* sample_rate / 2 = 22050.
C22_BankCoversNyquist ==
    BankAt44100 =>
        /\ Len(wt.bank.tables) >= 6
        /\ Len(wt.bank.frequency_bounds) = Len(wt.bank.tables)
        /\ StrictlyIncreasing(wt.bank.frequency_bounds)
        /\ RatLess(Rat(wt.bank.sample_rate, 2), wt.bank.frequency_bounds[Len(wt.bank.frequency_bounds)])

\* the frequencies in Hz select is examined at: below, at, between and above
\* the bounds
ProbeFreqs ==
    { <<1, 100>>, <<20, 1>>, <<40, 1>>, <<41, 1>>, <<10000, 1>>, <<10240, 1>>,
      <<20480, 1>>, <<22050, 1>>, <<1000000000, 1>> }

\* the indices (from 0) of the bounds that are at least f
AtLeast(bounds, f) == { i \in 0..(Len(bounds) - 1) : RatLeq(f, bounds[i + 1]) }

\* the smallest index whose bound is at least f, the last index when f
\* exceeds every bound
SmallestIndex(bounds, f) ==
    IF AtLeast(bounds, f) = {}
    THEN Len(bounds) - 1
    ELSE CHOOSE i \in AtLeast(bounds, f) : \A j \in AtLeast(bounds, f) : i <= j

\* C23: for a bank with strictly increasing bounds, select(f) is the smallest
\* index i with bound[i] >= f, and tables.len() - 1 when f exceeds every
\* bound; it is always a valid table index; at 44100 Hz select(20) = 0,
\* select(10000) >= 5 and select(1e9) = tables.len() - 1; the table process
\* plays is the one selected for the frequency it last saw.
C23_SelectIsSmallestBound ==
    (wt.made /\ StrictlyIncreasing(wt.bank.frequency_bounds)) =>
        /\ \A f \in ProbeFreqs :
            /\ find_table_index(wt.bank, f) = SmallestIndex(wt.bank.frequency_bounds, f)
            /\ find_table_index(wt.bank, f) \in 0..(Len(wt.bank.tables) - 1)
        /\ BankAt44100 =>
            /\ find_table_index(wt.bank, <<20, 1>>) = 0
            /\ find_table_index(wt.bank, <<10000, 1>>) >= 5
            /\ find_table_index(wt.bank, <<1000000000, 1>>) = Len(wt.bank.tables) - 1
        /\ wt.last_freq # 0 =>
            wt.current_table = SmallestIndex(wt.bank.frequency_bounds, Rat(wt.last_freq, HzUnits))

\* process selected the last table for a frequency above every bound
C23_Witness ==
    /\ BankAt44100
    /\ oscOp.op = "process"
    /\ oscOp.result = "sample"
    /\ RatLess(wt.bank.frequency_bounds[Len(wt.bank.frequency_bounds)], Rat(wt.last_freq, HzUnits))
    /\ wt.current_table = Len(wt.bank.tables) - 1

\* C30: every table is limited to harmonics that stay under Nyquist / 3 at
\* its top playback ratio: for each table i, the number of harmonics stored
\* in table i times bound[i] is below sample_rate / 6, so no frequency that
\* selects table i meets a harmonic above Nyquist in it.
C30_HarmonicsUnderNyquistThird ==
    wt.made =>
        \A i \in 1..Len(wt.bank.tables) :
            /\ RatLess(RatMul(<<wt.bank.tables[i].harmonics, 1>>, wt.bank.frequency_bounds[i]),
                       Rat(wt.bank.sample_rate, 6))
            /\ RatLeq(RatMul(<<wt.bank.tables[i].highest, 1>>, wt.bank.frequency_bounds[i]),
                      Rat(wt.bank.sample_rate, 2))

\* 0 <= phase < 1
InUnit(phase) == phase[1] >= 0 /\ phase[1] < phase[2]

\* C24: for both the PolyBLEP oscillator and the wavetable oscillator, after
\* every process call 0 <= phase < 1, for every frequency the frequency
\* parameter can yield and every sample rate of the clock; in the wavetable
\* oscillator one conditional subtraction is enough because phase_increment
\* is below 1.
C24_PhaseStaysInUnitInterval ==
    /\ blep.made => InUnit(blep.phase)
    /\ wt.made => (InUnit(wt.phase) /\ RatLess(wt.phase_increment, <<1, 1>>))

\* C25: the render path never fails upward: in every reachable state,
\* a poisoned node lock included, process returns a sample without
\* panicking, and a node met in such a condition outputs silence.
C25_RenderNeverPanics ==
    oscOp.op = "process" => oscOp.result = "sample"

\* |n / d| * gain <= 1 + 1e-3, for a gain of 0 or 1
WithinUnit(x, gain) ==
    \/ gain = 0
    \/ Abs(x[1]) <= x[2]
    \/ (Abs(x[1]) - x[2]) * 1000 <= x[2]

\* a sample of an oscillator is within 1 + 1e-3: a sine is, an exact sample
\* is compared, and of the leaky integrator the first sample, which is its
\* first contribution, is compared
SampleWithinUnit(out, gain) ==
    IF out.kind = "exact" THEN WithinUnit(out.value, gain)
    ELSE IF out.kind = "leaky" /\ Len(out.terms) = 1 THEN WithinUnit(out.terms[1], gain)
    ELSE TRUE

\* the sign of sin(2 * pi * phase) for 0 <= phase < 1
SineSign(phase) ==
    IF phase[1] = 0 \/ 2 * phase[1] = phase[2] THEN 0
    ELSE IF 2 * phase[1] < phase[2] THEN 1 ELSE -1

\* the signs met among the next k samples of a Sine oscillator, up to the
\* sample at which both signs have been met
RECURSIVE SineSigns(_, _, _, _)
SineSigns(phase, dt, k, seen) ==
    IF k = 0 \/ {1, -1} \subseteq seen THEN seen
    ELSE SineSigns(NextPhase(phase, dt), dt, k - 1, seen \cup {SineSign(phase)})

\* a new 440 Hz sine at gain 1 on a clock of 44100 Hz
FreshSine ==
    /\ blep.made
    /\ blep.osc_type = "Sine"
    /\ blep.sample_rate = 44100
    /\ blep.frequency = FreqDefault
    /\ blep.gain = GainMax
    /\ blep.count = 0

\* C29: every sample an oscillator produces with a gain of at most 1 has
\* magnitude at most 1 + 1e-3, at every sample index; the first 100 samples
\* of a 440 Hz sine at gain 1 lie in [-1, 1] and contain a positive and a
\* negative value.
C29_SamplesWithinUnit ==
    /\ (blep.made /\ oscOp.op = "process") => SampleWithinUnit(oscOp.output, oscOp.gain)
    /\ FreshSine => {1, -1} \subseteq SineSigns(blep.phase, Dt(blep), 100, {})

\* C31: the frequency parameter of every oscillator has the range
\* [0.01, sample_rate / 2] for the sample rate of the clock it is made for
\* and rendered with: the values set are clamped to at most sample_rate / 2,
\* and phase_increment = f / sample_rate never exceeds 0.5.
C31_FrequencyWithinNyquist ==
    /\ wt.made =>
          /\ wt.frequency >= FreqMin
          /\ 2 * wt.frequency <= HzUnits * wt.sample_rate
          /\ RatLeq(wt.phase_increment, <<1, 2>>)
    /\ blep.made =>
          /\ blep.frequency >= FreqMin
          /\ 2 * blep.frequency <= HzUnits * blep.sample_rate
          /\ RatLeq(Dt(blep), <<1, 2>>)

(***************************************************************************)
(* Properties of the AudioProcessor.                                       *)
(***************************************************************************)
\* the names of the attached inputs, in the order they are visited
Attached(node) == SelectSeq(InputOrder, LAMBDA n : n \in DOMAIN node.inputs)

\* what a child without inputs of its own yields at sample s
ChildOut(box, s) ==
    IF box.node.type = "osc"
    THEN <<"osc", box.node.phase, GainAt(box.node, s)>>
    ELSE <<"proc", <<>>, GainAt(box.node, s)>>

\* the children's samples at s, the terms of the sum
ChildOuts(node, s) ==
    [i \in 1..Len(Attached(node)) |-> ChildOut(node.inputs[Attached(node)[i]], s)]

\* every input was evaluated exactly once: an oscillator's phase advanced by
\* one step, and nothing else changed
EvaluatedOnce(before, after) ==
    /\ after.gain = before.gain
    /\ DOMAIN after.inputs = DOMAIN before.inputs
    /\ \A n \in DOMAIN before.inputs :
          after.inputs[n] =
              IF before.inputs[n].node.type = "osc"
              THEN PlainBox([before.inputs[n].node EXCEPT !.phase = (@ + 1) % PhaseSteps])
              ELSE before.inputs[n]

\* C26: process(s) of an AudioProcessor is gain.get_value(s) times the sum of
\* process(s) over its attached inputs, each evaluated exactly once with the
\* same sample index s (the empty sum, 0, without inputs); connect_input
\* under a name that already exists replaces that input and leaves the
\* number of inputs unchanged.
C26_ProcessorSumsInputsTimesGain ==
    /\ [][graphOp'.op = "process" =>
            /\ graphOp'.out = <<"proc", ChildOuts(arcs[1], graphOp'.sample),
                                GainAt(arcs[1], graphOp'.sample)>>
            /\ EvaluatedOnce(arcs[1], arcs'[1])]_vars
    /\ [][graphOp'.op = "connect_input" =>
            /\ arcs'[1].inputs[graphOp'.name] = graphOp'.child
            /\ DOMAIN arcs'[1].inputs = DOMAIN arcs[1].inputs \cup {graphOp'.name}
            /\ \A n \in DOMAIN arcs[1].inputs \ {graphOp'.name} :
                  arcs'[1].inputs[n] = arcs[1].inputs[n]
            /\ graphOp'.name \in DOMAIN arcs[1].inputs =>
                  Cardinality(DOMAIN arcs'[1].inputs) = Cardinality(DOMAIN arcs[1].inputs)]_vars

\* a processor with two inputs and a ramped gain has been processed
C26_Witness ==
    /\ graphOp.op = "process"
    /\ Len(graphOp.out[2]) = 2
    /\ arcs[1].gain.events # <<>>

(***************************************************************************)
(* Properties of the parameter under two threads.                          *)
(***************************************************************************)
\* the lock is held by whom is inside its critical section, so whoever holds
\* it can release it
HeldByItsHolder ==
    /\ eventsLock.writer <=> writer.pc = "writing"
    /\ eventsLock.readers =
          (IF audio.pc = "reading" THEN 1 ELSE 0) + (IF writer.pc = "reading" THEN 1 ELSE 0)
    /\ ~(eventsLock.writer /\ eventsLock.readers > 0)

\* C27: the audio thread never waits unboundedly on a parameter: under
\* every interleaving of get_value with set_value, the schedule calls,
\* cancel_scheduled_values, reset and clone of the control thread, every
\* get_value call eventually returns, and no deadlock is reachable.
C27_GetValueReturns ==
    /\ []HeldByItsHolder
    /\ (audio.pc = "read") ~> (audio.pc = "returned")

(***************************************************************************)
(* Properties of the schedule calls and of the reads of a parameter.       *)
(***************************************************************************)
\* C33: each schedule call appends exactly one event at the end of the list,
\* with start_sample = anchor and start_value = the current value stored at
\* the moment of the call, whatever the anchor and the events already in the
\* list; the current value and all earlier events are unchanged.
C33_ScheduleAppendsOneEvent ==
    [][ lastOp'.op \in ScheduleOps =>
          /\ Len(events') = Len(events) + 1
          /\ SubSeq(events', 1, Len(events)) = events
          /\ events'[Len(events')].start_sample = lastOp'.anchor
          /\ events'[Len(events')].start_value = current_value
          /\ events'[Len(events')].ramp_type =
                (IF lastOp'.op = "linear" THEN "Linear" ELSE "Exponential")
          /\ current_value' = current_value
      ]_vars

\* a schedule call was made while an earlier event, ending at another value,
\* has not yet completed at the anchor of the new one
C33_Witness ==
    /\ lastOp.op \in ScheduleOps
    /\ Len(events) = 2
    /\ events[1].end_value # current_value
    /\ events[2].start_sample < EndSample(events[1])
    /\ events[2].start_value = current_value

(***************************************************************************)
(* Properties of the reads of a wave table.                                *)
(***************************************************************************)
\* the lowest index the Cubic interpolation reads: idx.wrapping_sub(1) & mask
LowestRead(idx, table) == (idx + table.table_mask) % (table.table_mask + 1)

\* C34: in Cubic mode, for every table index (N - 1 and 0 in particular), the
\* four reads at i - 1, i, i + 1 and i + 2 stay within the N + 1 stored
\* samples of the table, so that no read is out of bounds for any phase.
C34_CubicReadsInBounds ==
    (wt.made /\ oscOp.op = "process" /\ ~oscOp.poisoned /\ wt.interpolation_mode = "Cubic") =>
        /\ LowestRead(oscOp.idx, CurrentTable(wt)) \in 0..(CurrentTable(wt).samples - 1)
        /\ HighestRead("Cubic", oscOp.idx) \in 0..(CurrentTable(wt).samples - 1)

\* n is a power of two
RECURSIVE PowerOfTwo(_)
PowerOfTwo(n) == n = 1 \/ (n > 1 /\ n % 2 = 0 /\ PowerOfTwo(n \div 2))

\* one period of a power of two of samples, at least MIN_TABLE_SIZE, with its
\* mask, and one more sample, the copy of the first
OnePeriodAndGuard(table) ==
    /\ PowerOfTwo(table.table_size)
    /\ table.table_size >= MIN_TABLE_SIZE
    /\ table.table_mask = table.table_size - 1
    /\ table.samples = table.table_size + 1
    /\ table.pad = 0

\* C35: every table of a bank has a length N that is a power of two, N >= 64,
\* mask = N - 1 and exactly N + 1 stored samples of which the last is the
\* copy of the first; hence for every phase the Linear and Simd reads at
\* i = floor(phase * N) & mask and at i + 1 are in bounds, with no branch for
\* the wrap.
C35_TablesHoldOnePeriodAndGuard ==
    wt.made =>
        /\ \A i \in DOMAIN wt.bank.tables : OnePeriodAndGuard(wt.bank.tables[i])
        /\ (oscOp.op = "process" /\ ~oscOp.poisoned /\ wt.interpolation_mode # "Cubic") =>
              /\ oscOp.result = "sample"
              /\ oscOp.idx \in 0..(CurrentTable(wt).table_size - 1)
              /\ HighestRead(wt.interpolation_mode, oscOp.idx) \in 0..(CurrentTable(wt).samples - 1)

\* a Linear or Simd read at the last index of the period, whose second sample
\* is the guard sample
C35_Witness ==
    /\ wt.made
    /\ oscOp.op = "process"
    /\ oscOp.result = "sample"
    /\ wt.interpolation_mode # "Cubic"
    /\ oscOp.idx = CurrentTable(wt).table_size - 1

\* C36: get_value never modifies the parameter: the current value and the
\* event list are the same before and after every step of a get_value call,
\* at any sample index, so that the end value of a completed ramp is never
\* written back into the current value; and a call that no write overlaps
\* returns what the current value and the events determine at its index, the
\* same for every such call.
C36_GetValueWritesNothing ==
    [][ audio'.pc # audio.pc =>
          /\ current_value' = current_value
          /\ events' = events
          /\ <<default_value', min_value', max_value'>> = <<default_value, min_value, max_value>>
          /\ (audio'.pc = "returned" /\ audio.loaded = current_value) =>
                audio'.value = get_value(current_value', events', audio'.sample)
      ]_vars

\* get_value has returned the end value of a completed ramp, and the current
\* value is still another one
C36_Witness ==
    /\ audio.pc = "returned"
    /\ writer.pc = "idle"
    /\ events # <<>>
    /\ Completed(events[Len(events)], audio.sample)
    /\ audio.value = Rat(events[Len(events)].end_value, 1)
    /\ events[Len(events)].end_value # current_value

(***************************************************************************)
(* Properties of the snapshots set_output and start take.                  *)
(***************************************************************************)
\* the box owns its node and everything below it: no handle is met from it
Owned(box) == ReachBox(box, arcs, {}) = {}

\* C37: a snapshot is never updated by later edits of the graph: for nodes
\* owned by their boxes, the output node stored by set_output(x) is unchanged
\* by any later add, connect or disconnect that targets x, and the node the
\* running callback renders is the duplicate taken inside start and is
\* unchanged by any later set_output, add, connect or disconnect until the
\* next start.
C37_SnapshotsIgnoreLaterEdits ==
    [][ /\ (graphOp'.op \in {"add", "connect", "disconnect"} /\ Owned(output_node)) =>
              /\ output_node' = output_node
              /\ StateOf(output_node', arcs', {}) = StateOf(output_node, arcs, {})
        /\ ( /\ graphOp'.op \in {"add", "connect", "disconnect", "set_output"}
             /\ stream.open
             /\ Owned(stream.output_node) ) =>
              /\ stream' = stream
              /\ StateOf(stream'.output_node, arcs', {}) = StateOf(stream.output_node, arcs, {})
      ]_vars

\* the callback is between two frames, rendered from an owned node with an
\* input, the stored output node is another owned snapshot with that input,
\* and disconnect was the last call: the registry's node has no input
C37_Witness ==
    /\ graphOp.op = "disconnect"
    /\ callback.state = "running"
    /\ callback.views # <<>>
    /\ FillName \in DOMAIN nodes
    /\ nodes[FillName].kind = "plain"
    /\ Owned(output_node)
    /\ Owned(stream.output_node)
    /\ DOMAIN InputsOf(nodes[FillName], arcs) = {}
    /\ DOMAIN InputsOf(output_node, arcs) # {}
    /\ DOMAIN InputsOf(stream.output_node, arcs) # {}

\* what get_value yields at the audio thread's sample once the single call
\* of the control thread that overlaps it has finished
AfterCall ==
    IF writer.pc = "idle"
    THEN get_value(current_value, events, audio.sample)
    ELSE IF writer.call = "reset"
         THEN Rat(default_value, 1)
         ELSE get_value(current_value, <<>>, audio.sample)

\* C38: a get_value(s) call of the audio thread that overlaps a reset or a
\* cancel_scheduled_values of the control thread on the same parameter returns
\* either what get_value(s) yielded before that call started or what it
\* yields after the call has finished, never a third value.
C38_OverlappedReadIsBeforeOrAfter ==
    [][ ( /\ audio.pc = "reading"
          /\ audio'.pc = "returned"
          /\ audio.n = 1
          /\ audio.call \in {"reset", "cancel_scheduled_values"} ) =>
          audio'.value \in {audio.before, AfterCall}
      ]_vars

(***************************************************************************)
(* Properties of the fields process keeps of the frequency it last saw.    *)
(***************************************************************************)
\* last_freq, phase_increment and current_table agree with the frequency
\* the last process call evaluated
TunedTo(o) ==
    /\ o.last_freq = o.frequency
    /\ o.phase_increment = Rat(o.last_freq, HzUnits * o.sample_rate)
    /\ o.current_table = find_table_index(o.bank, Rat(o.last_freq, HzUnits))
    /\ o.current_table \in 0..(Len(o.bank.tables) - 1)

\* C39: after every process call of a wavetable oscillator last_freq is the
\* frequency evaluated in that call, phase_increment = last_freq / sample_rate,
\* current_table = select(last_freq) and current_table < tables.len(); and a
\* process call whose frequency equals last_freq changes none of the three
\* fields.
C39_ProcessKeepsTuning ==
    /\ []((wt.made /\ oscOp.op = "process" /\ ~oscOp.poisoned) => TunedTo(wt))
    /\ [][ (wt.made /\ oscOp'.op = "process" /\ wt.frequency = wt.last_freq) =>
              <<wt'.last_freq, wt'.phase_increment, wt'.current_table>> =
              <<wt.last_freq, wt.phase_increment, wt.current_table>>
         ]_vars

\* two process calls at one frequency, set by the caller, have advanced the
\* phase twice by the same increment and play a table other than the first
C39_Witness ==
    /\ wt.made
    /\ oscOp.op = "process"
    /\ oscOp.result = "sample"
    /\ wt.count = 2
    /\ wt.last_freq # FreqDefault
    /\ wt.current_table > 0
    /\ wt.phase = Wrapped(RatAdd(wt.phase_increment, wt.phase_increment))

====
